---- MODULE Spec2Model ----
(***************************************************************************)
(* Bounded-memory inverted-index builder (indexer.cpp) and Boolean query   *)
(* engine (search_cli.cpp, stemming.cpp).                                  *)
(*                                                                         *)
(* Bytes are naturals 0..255, texts and terms are sequences of bytes.      *)
(* Files are values held in variables; a file that does not exist is the   *)
(* value NoFile.  The heap is not modelled except where the code reads     *)
(* released memory: there the bytes read are a nondeterministic choice.    *)
(***************************************************************************)
EXTENDS Integers, Sequences, FiniteSets, TLC

\* F applied to the value v: "LET x == v IN F(x)" with v computed once
With(v, F(_)) == F(v)

(***************************************************************************)
(* Bounds of the model.                                                    *)
(***************************************************************************)
\* longest manifest drawn in Init
MaxLines == 2
\* log2 of the initial TermTable capacity (the source starts at 2^21)
TTCapLog2 == 1
\* log2 of the DocTermSet capacity (the source uses 2^17)
DSetCapLog2 == 1
\* number of doc-ids in the index of the algebra specification
AlgDocs == 3
\* number of calls of get_or_create and contains_or_add in the table
\* specification
MaxCalls == 4

(***************************************************************************)
(* Characters.                                                             *)
(***************************************************************************)
Lower == <<"a","b","c","d","e","f","g","h","i","j","k","l","m",
           "n","o","p","q","r","s","t","u","v","w","x","y","z">>
Upper == <<"A","B","C","D","E","F","G","H","I","J","K","L","M",
           "N","O","P","Q","R","S","T","U","V","W","X","Y","Z">>
Digit == <<"0","1","2","3","4","5","6","7","8","9">>
\* the punctuation the inputs use, with its ASCII code
Punct == <<" ", "!", "#", "&", "(", ")", ",", ".", "|">>
PunctCode == <<32, 33, 35, 38, 40, 41, 44, 46, 124>>

\* ASCII code of a one-character string
OrdTable ==
    [c \in { Lower[i] : i \in 1..26 } \cup { Upper[i] : i \in 1..26 }
           \cup { Digit[i] : i \in 1..10 } \cup { Punct[i] : i \in 1..Len(Punct) } |->
        IF \E i \in 1..26 : Lower[i] = c THEN 96 + (CHOOSE i \in 1..26 : Lower[i] = c)
        ELSE IF \E i \in 1..26 : Upper[i] = c THEN 64 + (CHOOSE i \in 1..26 : Upper[i] = c)
        ELSE IF \E i \in 1..10 : Digit[i] = c THEN 47 + (CHOOSE i \in 1..10 : Digit[i] = c)
        ELSE PunctCode[CHOOSE i \in 1..Len(Punct) : Punct[i] = c]]

Ord(c) == OrdTable[c]

\* byte string of a sequence of one-character strings
B(cs) == [i \in 1..Len(cs) |-> Ord(cs[i])]

is_ascii_alnum(c) ==
    \/ c >= Ord("0") /\ c <= Ord("9")
    \/ c >= Ord("A") /\ c <= Ord("Z")
    \/ c >= Ord("a") /\ c <= Ord("z")

to_lower_ascii(c) ==
    IF c >= Ord("A") /\ c <= Ord("Z") THEN c - Ord("A") + Ord("a") ELSE c

(***************************************************************************)
(* Bit operations on naturals.                                             *)
(***************************************************************************)
RECURSIVE BitXor(_, _)
BitXor(a, b) ==
    IF a = 0 THEN b
    ELSE IF b = 0 THEN a
    ELSE (((a % 2) + (b % 2)) % 2) + 2 * BitXor(a \div 2, b \div 2)

RECURSIVE BitAnd(_, _)
BitAnd(a, b) ==
    IF a = 0 \/ b = 0 THEN 0
    ELSE ((a % 2) * (b % 2)) + 2 * BitAnd(a \div 2, b \div 2)

RECURSIVE Pow2(_)
Pow2(n) == IF n = 0 THEN 1 ELSE 2 * Pow2(n - 1)

(***************************************************************************)
(* fnv1a_64, kept to its low 12 bits: the tables only use h & (cap-1),     *)
(* and the low 12 bits of h ^ byte and of h * prime are functions of the   *)
(* low 12 bits of h.  899 and 435 are the low 12 bits of the offset basis  *)
(* 1469598103934665603 and of the prime 1099511628211.  The function       *)
(* returns 1 for a 64-bit value of 0 ("return h ? h : 1"), so the hash of  *)
(* a stored entry is never 0 and "hash != 0" is the slot's live flag.      *)
(***************************************************************************)
\* the body of the loop for byte c: h ^= c; h *= prime
fnv_step(h, c) == (BitXor(h, c) * 435) % 4096

\* the loop over the bytes lo..hi of s, the range taken in two halves so
\* that a term of 255 bytes needs few nested evaluations; h is one of the
\* 4096 values of 12 bits
RECURSIVE fnv_range(_, _, _, _)
fnv_range(h, s, lo, hi) ==
    IF lo > hi \/ h \notin 0..4095 THEN h
    ELSE IF lo = hi THEN fnv_step(h, s[lo])
    ELSE fnv_range(fnv_range(h, s, lo, lo + ((hi - lo) \div 2)), s,
                   lo + ((hi - lo) \div 2) + 1, hi)

fnv_from(h, s, i) == fnv_range(h, s, i, Len(s))

fnv1a_64(s) == fnv_from(899, s, 1)

(***************************************************************************)
(* Orders on byte strings.                                                 *)
(***************************************************************************)
Min(a, b) == IF a < b THEN a ELSE b

\* memcmp(a, b, m): sign of the first difference within the first m bytes
RECURSIVE memcmp_from(_, _, _, _)
memcmp_from(a, b, m, i) ==
    IF i > m THEN 0
    ELSE IF a[i] < b[i] THEN -1
    ELSE IF a[i] > b[i] THEN 1
    ELSE memcmp_from(a, b, m, i + 1)

memcmp(a, b, m) == memcmp_from(a, b, m, 1)

\* (bytes, then length) order used by the block writer, the merger, the
\* lexicon sort and the binary search
lex_cmp_str(a, b) ==
    LET c == memcmp(a, b, Min(Len(a), Len(b)))
    IN  IF c # 0 THEN c
        ELSE IF Len(a) < Len(b) THEN -1
        ELSE IF Len(a) > Len(b) THEN 1 ELSE 0

term_cmp_lex(ea, eb) == lex_cmp_str(ea.term, eb.term)

(***************************************************************************)
(* U32List: a posting list with its allocated capacity.                    *)
(***************************************************************************)
U32List == [a |-> <<>>, cap |-> 0]

\* the append without the test of the last element
push_unique_sorted_unchecked(l, v) ==
    [a   |-> Append(l.a, v),
     cap |-> IF Len(l.a) = l.cap THEN (IF l.cap # 0 THEN l.cap * 2 ELSE 8)
             ELSE l.cap]

push_unique_sorted(l, v) ==
    IF Len(l.a) > 0 /\ l.a[Len(l.a)] = v THEN l
    ELSE [a   |-> Append(l.a, v),
          cap |-> IF Len(l.a) = l.cap THEN (IF l.cap # 0 THEN l.cap * 2 ELSE 8)
                  ELSE l.cap]

(***************************************************************************)
(* TermTable: open addressing over slots 0..cap-1.  live stands for        *)
(* hash != 0.  arena_used is Arena::used: Arena::add(s, len) takes len + 1 *)
(* bytes.                                                                  *)
(***************************************************************************)
TermEntry == [live |-> FALSE, term |-> <<>>, post |-> U32List]

\* sizeof(TermEntry): hash 8, term 8, len 2 (+6 padding), post 8 + 4 + 4
SizeofTermEntry == 40

TermTable_init(cap_pow2) ==
    [tab |-> [i \in 0..(cap_pow2 - 1) |-> TermEntry],
     cap |-> cap_pow2, used |-> 0, arena_used |-> 0]

\* clear() that marks the slots free and leaves their posting lists
TermTable_clear_keeping_lists(tt) ==
    [tab |-> [i \in 0..(tt.cap - 1) |-> [TermEntry EXCEPT !.post = tt.tab[i].post]],
     cap |-> tt.cap, used |-> 0, arena_used |-> 0]

TermTable_clear(tt) ==
    [tab |-> [i \in 0..(tt.cap - 1) |-> TermEntry],
     cap |-> tt.cap, used |-> 0, arena_used |-> 0]

\* the probe loop "while (tab[pos].hash != 0) pos = (pos + 1) & mask" of the
\* rehash: the first free slot from pos, or -1 when the loop never ends
RECURSIVE probe_free(_, _, _, _)
probe_free(tab, mask, pos, steps) ==
    IF steps > mask THEN -1
    ELSE IF ~tab[pos].live THEN pos
    ELSE probe_free(tab, mask, BitAnd(pos + 1, mask), steps + 1)

\* the loop over the old slots in maybe_grow
RECURSIVE rehash_from(_, _, _, _)
rehash_from(old, old_cap, i, t) ==
    IF i >= old_cap THEN t
    ELSE IF old[i].live
         THEN LET mask == t.cap - 1
                  pos  == probe_free(t.tab, mask,
                                     BitAnd(fnv1a_64(old[i].term), mask), 0)
              IN  rehash_from(old, old_cap, i + 1,
                              [t EXCEPT !.tab[pos] = old[i], !.used = @ + 1])
         ELSE rehash_from(old, old_cap, i + 1, t)

\* maybe_grow with the rehash put off to a load of 90%
TermTable_maybe_grow_at_90(tt) ==
    IF tt.used * 10 < tt.cap * 9 THEN tt
    ELSE rehash_from(tt.tab, tt.cap, 0,
                     [tab |-> [i \in 0..(tt.cap * 2 - 1) |-> TermEntry],
                      cap |-> tt.cap * 2, used |-> 0,
                      arena_used |-> tt.arena_used])

TermTable_maybe_grow(tt) ==
    IF tt.used * 10 < tt.cap * 7 THEN tt
    ELSE rehash_from(tt.tab, tt.cap, 0,
                     [tab |-> [i \in 0..(tt.cap * 2 - 1) |-> TermEntry],
                      cap |-> tt.cap * 2, used |-> 0,
                      arena_used |-> tt.arena_used])

\* the probe loop of get_or_create and contains_or_add: the first slot from
\* pos that is free or holds s, or -1 when the loop never ends
RECURSIVE probe_find(_, _, _, _, _)
probe_find(tab, mask, pos, s, steps) ==
    IF steps > mask THEN -1
    ELSE IF ~tab[pos].live THEN pos
    ELSE IF tab[pos].term = s THEN pos
    ELSE probe_find(tab, mask, BitAnd(pos + 1, mask), s, steps + 1)

\* get_or_create: the table after the call and the slot returned
\* (e = -1: nullptr; hang: the probe loop does not end)
TermTable_get_or_create(tt0, s) ==
    IF Len(s) <= 0 THEN [tt |-> tt0, e |-> -1, hang |-> FALSE]
    ELSE With(TermTable_maybe_grow(tt0), LAMBDA tt :
         With(probe_find(tt.tab, tt.cap - 1, BitAnd(fnv1a_64(s), tt.cap - 1), s, 0),
              LAMBDA pos :
           IF pos = -1 THEN [tt |-> tt, e |-> -1, hang |-> TRUE]
           ELSE IF ~tt.tab[pos].live
           THEN [tt |-> [tt EXCEPT !.tab[pos] = [live |-> TRUE, term |-> s,
                                                 post |-> U32List],
                                   !.used = @ + 1,
                                   !.arena_used = @ + Len(s) + 1],
                 e |-> pos, hang |-> FALSE]
           ELSE [tt |-> tt, e |-> pos, hang |-> FALSE]))

RECURSIVE SumPostCap(_, _)
SumPostCap(tt, i) ==
    IF i >= tt.cap THEN 0
    ELSE (IF tt.tab[i].live THEN tt.tab[i].post.cap * 4 ELSE 0)
         + SumPostCap(tt, i + 1)

TermTable_approx_mem_bytes(tt) ==
    tt.cap * SizeofTermEntry + tt.arena_used + SumPostCap(tt, 0)

(***************************************************************************)
(* DocTermSet: the per-document set of terms already seen.                 *)
(***************************************************************************)
DocSetEntry == [live |-> FALSE, term |-> <<>>]

DocTermSet_init(cap_pow2) ==
    [tab |-> [i \in 0..(cap_pow2 - 1) |-> DocSetEntry],
     cap |-> cap_pow2, used |-> 0, arena_used |-> 0]

DocTermSet_reset(ds) == DocTermSet_init(ds.cap)

\* contains_or_add with a saturated set answering 1 (already present)
contains_or_add_suppressing(ds, s) ==
    IF Len(s) <= 0 THEN [ds |-> ds, ret |-> 1, hang |-> FALSE]
    ELSE IF ds.used * 10 >= ds.cap * 8 THEN [ds |-> ds, ret |-> 1, hang |-> FALSE]
    ELSE With(probe_find(ds.tab, ds.cap - 1, BitAnd(fnv1a_64(s), ds.cap - 1), s, 0),
              LAMBDA pos :
           IF pos = -1 THEN [ds |-> ds, ret |-> 0, hang |-> TRUE]
           ELSE IF ~ds.tab[pos].live
           THEN [ds |-> [ds EXCEPT !.tab[pos] = [live |-> TRUE, term |-> s],
                                   !.used = @ + 1,
                                   !.arena_used = @ + Len(s) + 1],
                 ret |-> 0, hang |-> FALSE]
           ELSE [ds |-> ds, ret |-> 1, hang |-> FALSE])

\* contains_or_add that probes a set at its threshold as well
contains_or_add_probing(ds, s) ==
    IF Len(s) <= 0 THEN [ds |-> ds, ret |-> 1, hang |-> FALSE]
    ELSE With(probe_find(ds.tab, ds.cap - 1, BitAnd(fnv1a_64(s), ds.cap - 1), s, 0),
              LAMBDA pos :
           IF pos = -1 THEN [ds |-> ds, ret |-> 0, hang |-> TRUE]
           ELSE IF ~ds.tab[pos].live
           THEN [ds |-> [ds EXCEPT !.tab[pos] = [live |-> TRUE, term |-> s],
                                   !.used = @ + 1,
                                   !.arena_used = @ + Len(s) + 1],
                 ret |-> 0, hang |-> FALSE]
           ELSE [ds |-> ds, ret |-> 1, hang |-> FALSE])

\* contains_or_add: the set after the call and the value returned
\* (1: already present, 0: not present)
DocTermSet_contains_or_add(ds, s) ==
    IF Len(s) <= 0 THEN [ds |-> ds, ret |-> 1, hang |-> FALSE]
    ELSE IF ds.used * 10 >= ds.cap * 8 THEN [ds |-> ds, ret |-> 0, hang |-> FALSE]
    ELSE With(probe_find(ds.tab, ds.cap - 1, BitAnd(fnv1a_64(s), ds.cap - 1), s, 0),
              LAMBDA pos :
           IF pos = -1 THEN [ds |-> ds, ret |-> 0, hang |-> TRUE]
           ELSE IF ~ds.tab[pos].live
           THEN [ds |-> [ds EXCEPT !.tab[pos] = [live |-> TRUE, term |-> s],
                                   !.used = @ + 1,
                                   !.arena_used = @ + Len(s) + 1],
                 ret |-> 0, hang |-> FALSE]
           ELSE [ds |-> ds, ret |-> 1, hang |-> FALSE])

(***************************************************************************)
(* process_one_doc: the tokenizer and the insertion of each token.         *)
(***************************************************************************)
\* a file with its content, and a file that does not exist
File(content) == [exists |-> TRUE, content |-> content]
NoFile == [exists |-> FALSE, content |-> <<>>]

TOK_MAX == 256

\* the body run for each completed token (indexer.cpp 749-757 and 764-772);
\* toks records the tokens in the order the tokenizer produced them
index_token(st, tok, doc_id) ==
    With(DocTermSet_contains_or_add(st.ds, tok), LAMBDA r :
      IF r.hang THEN [st EXCEPT !.hang = TRUE]
      ELSE IF r.ret # 0
      THEN [st EXCEPT !.ds = r.ds, !.toks = Append(@, tok)]
      ELSE With(TermTable_get_or_create(st.tt, tok), LAMBDA g :
             IF g.hang THEN [st EXCEPT !.hang = TRUE]
             ELSE [st EXCEPT
                     !.ds = r.ds,
                     !.toks = Append(@, tok),
                     !.unique_in_doc = @ + 1,
                     !.tt = IF g.e = -1 THEN g.tt
                            ELSE [g.tt EXCEPT !.tab[g.e].post =
                                     push_unique_sorted(@, doc_id)]]))

\* the body of the loop over the bytes with a full token buffer emitted as
\* a token and the run continued in a new one
scan_byte_splitting(s, c, doc_id) ==
    IF s.st.hang THEN s
    ELSE IF is_ascii_alnum(c)
    THEN (IF Len(s.tok) < TOK_MAX - 1
          THEN [s EXCEPT !.tok = Append(@, to_lower_ascii(c))]
          ELSE [tok |-> <<to_lower_ascii(c)>>, st |-> index_token(s.st, s.tok, doc_id)])
    ELSE IF Len(s.tok) > 0
    THEN [tok |-> <<>>, st |-> index_token(s.st, s.tok, doc_id)]
    ELSE s

\* the body of the loop over the bytes of the file, for byte c
\* (indexer.cpp 743-760): s.tok is tok[0..tok_len)
scan_byte(s, c, doc_id) ==
    IF s.st.hang THEN s
    ELSE IF is_ascii_alnum(c)
    THEN (IF Len(s.tok) < TOK_MAX - 1
          THEN [s EXCEPT !.tok = Append(@, to_lower_ascii(c))]
          ELSE s)
    ELSE IF Len(s.tok) > 0
    THEN [tok |-> <<>>, st |-> index_token(s.st, s.tok, doc_id)]
    ELSE s

\* the loop over the bytes lo..hi of buf, the range taken in two halves so
\* that a run of several hundred bytes needs few nested evaluations
RECURSIVE scan_range(_, _, _, _, _)
scan_range(s, buf, lo, hi, doc_id) ==
    IF lo > hi \/ s.st.hang THEN s
    ELSE IF lo = hi THEN scan_byte(s, buf[lo], doc_id)
    ELSE scan_range(scan_range(s, buf, lo, lo + ((hi - lo) \div 2), doc_id), buf,
                    lo + ((hi - lo) \div 2) + 1, hi, doc_id)

\* the loop over the bytes of the file from byte i, then the token left at
\* end of file
scan_bytes(buf, i, tok, st, doc_id) ==
    With(scan_range([tok |-> tok, st |-> st], buf, i, Len(buf), doc_id), LAMBDA s :
      IF s.st.hang THEN s.st
      ELSE IF Len(s.tok) > 0 THEN index_token(s.st, s.tok, doc_id)
      ELSE s.st)

\* process_one_doc(txt_path, doc_id, tt, dset): file is the content of
\* txt_path or NoFile
process_one_doc(file, doc_id, tt, dset) ==
    IF ~file.exists
    THEN [tt |-> tt, ds |-> dset, toks |-> <<>>, unique_in_doc |-> 0,
          hang |-> FALSE, ret |-> -1]
    ELSE scan_bytes(file.content, 1, <<>>,
                    [tt |-> tt, ds |-> DocTermSet_reset(dset), toks |-> <<>>,
                     unique_in_doc |-> 0, hang |-> FALSE, ret |-> 0],
                    doc_id)

(***************************************************************************)
(* qsort of an array of records under (term bytes, then length).  Both     *)
(* comparators of the source (term_cmp_lex, lexrec_cmp_by_term) compare    *)
(* the terms only.  The order in which qsort leaves records that compare   *)
(* equal is not specified: the model keeps the two orders a merge sort may *)
(* produce, equal records in input order or in reverse input order.        *)
(***************************************************************************)
\* insertion of record x into the sorted sequence s, after (rev = FALSE) or
\* before (rev = TRUE) the records that compare equal to it
RECURSIVE sorted_insert(_, _, _, _)
sorted_insert(s, x, k, rev) ==
    IF k > Len(s) THEN Append(s, x)
    ELSE LET c == term_cmp_lex(x, s[k])
         IN  IF c < 0 \/ (c = 0 /\ rev)
             THEN SubSeq(s, 1, k - 1) \o <<x>> \o SubSeq(s, k, Len(s))
             ELSE sorted_insert(s, x, k + 1, rev)

RECURSIVE sort_from(_, _, _, _)
sort_from(arr, i, s, rev) ==
    IF i > Len(arr) THEN s
    ELSE sort_from(arr, i + 1, sorted_insert(s, arr[i], 1, rev), rev)

qsort(arr) == { sort_from(arr, 1, <<>>, FALSE), sort_from(arr, 1, <<>>, TRUE) }

(***************************************************************************)
(* write_block: the block file is the sequence of (term, docs) entries in  *)
(* the order written.                                                      *)
(***************************************************************************)
\* the loop that collects the live slots, in slot order
RECURSIVE collect_live(_, _)
collect_live(tt, i) ==
    IF i >= tt.cap THEN <<>>
    ELSE (IF tt.tab[i].live THEN <<tt.tab[i]>> ELSE <<>>) \o collect_live(tt, i + 1)

write_block(tt) ==
    LET arr    == collect_live(tt, 0)
        sorted == CHOOSE s \in qsort(arr) : TRUE
    IN  [k \in 1..Len(sorted) |->
            [term |-> sorted[k].term, df |-> Len(sorted[k].post.a),
             docs |-> sorted[k].post.a]]

\* what the file system may do with a block file: take it whole, refuse the
\* fopen, or fail a fwrite
BlkIoModes == {"ok", "open_fails", "write_fails"}

\* the place of a block file from which the bytes are missing: write_block
\* checks no fwrite, so a failed write leaves the file short, and a fread
\* there returns short (no entry of a block has an empty term)
TornEntry == [term |-> <<>>, df |-> 0, docs |-> <<>>]

\* write_block(path, tt) on a file system in mode io (indexer.cpp 369-397):
\* the outcomes, opened = FALSE being the exit(1) after a failed fopen and
\* blk the content of the file after fclose; a write that fails (of the
\* header or inside an entry) loses that entry and the ones after it
write_block_to(io, tt) ==
    IF io = "open_fails" THEN {[opened |-> FALSE, blk |-> <<>>]}
    ELSE IF io = "write_fails"
    THEN With(write_block(tt), LAMBDA b :
           { [opened |-> TRUE, blk |-> Append(SubSeq(b, 1, k), TornEntry)] :
             k \in 0..(IF Len(b) = 0 THEN 0 ELSE Len(b) - 1) })
    ELSE {[opened |-> TRUE, blk |-> write_block(tt)]}

(***************************************************************************)
(* DocsBuilder and docs.bin.                                               *)
(***************************************************************************)
DocsBuilder_init == [recs |-> <<>>, pool |-> <<>>]

\* Arena::add on the string pool: the bytes and a terminating NUL
Arena_add(pool, s) == pool \o s \o <<0>>

\* a builder that captures both offsets before the title is written
DocsBuilder_add_doc_one_offset(docs, title, url) ==
    LET title_off == Len(docs.pool)
        pool2     == Arena_add(Arena_add(docs.pool, title), url)
    IN  [docs |-> [recs |-> Append(docs.recs,
                              [title_off |-> title_off, title_len |-> Len(title),
                               url_off |-> title_off, url_len |-> Len(url)]),
                   pool |-> pool2],
         id   |-> Len(docs.recs)]

DocsBuilder_add_doc(docs, title, url) ==
    LET title_off == Len(docs.pool)
        pool1     == Arena_add(docs.pool, title)
        url_off   == Len(pool1)
        pool2     == Arena_add(pool1, url)
    IN  [docs |-> [recs |-> Append(docs.recs,
                              [title_off |-> title_off, title_len |-> Len(title),
                               url_off |-> url_off, url_len |-> Len(url)]),
                   pool |-> pool2],
         id   |-> Len(docs.recs)]

DocsBuilder_write_to(docs) ==
    [magic |-> "DOCS", version |-> 1, doc_count |-> Len(docs.recs),
     recs |-> docs.recs, pool |-> docs.pool]

(***************************************************************************)
(* BlockReader: blk is the block file, pos the 1-based index of the entry  *)
(* held in (term, term_len, df, docs); pos > Len(blk) when term is null.   *)
(***************************************************************************)
BlockReader_open(blk) == [blk |-> blk, pos |-> 1]

BlockReader_has(r) == r.pos <= Len(r.blk)

BlockReader_next(r) == IF r.pos <= Len(r.blk) THEN [r EXCEPT !.pos = @ + 1] ELSE r

\* the fread of open() or next() that brought r here returned short: the
\* reader has printed its diagnostic and called exit(1) (indexer.cpp 436,
\* 461-471)
BlockReader_read_failed(r) == BlockReader_has(r) /\ r.blk[r.pos] = TornEntry

(***************************************************************************)
(* merge_union_u32: the two-pointer union with duplicate suppression at    *)
(* the output boundary.                                                    *)
(***************************************************************************)
emit_u32(out, v) == IF Len(out) = 0 \/ out[Len(out)] # v THEN Append(out, v) ELSE out

RECURSIVE merge_union_from(_, _, _, _, _)
merge_union_from(a, b, i, j, out) ==
    IF i <= Len(a) /\ j <= Len(b)
    THEN IF a[i] = b[j] THEN merge_union_from(a, b, i + 1, j + 1, emit_u32(out, a[i]))
         ELSE IF a[i] < b[j] THEN merge_union_from(a, b, i + 1, j, emit_u32(out, a[i]))
         ELSE merge_union_from(a, b, i, j + 1, emit_u32(out, b[j]))
    ELSE IF i <= Len(a) THEN merge_union_from(a, b, i + 1, j, emit_u32(out, a[i]))
    ELSE IF j <= Len(b) THEN merge_union_from(a, b, i, j + 1, emit_u32(out, b[j]))
    ELSE out

merge_union_u32(a, b) == merge_union_from(a, b, 1, 1, <<>>)

(***************************************************************************)
(* LexBuilder and the files of the index.                                  *)
(***************************************************************************)
SizeofPostHeader == 40

\* a builder that records every run at the start of the data
LexBuilder_add_term_at_header(lex, term, postings_off, postings_len) ==
    Append(lex, [term |-> term, term_len |-> Len(term), flags |-> 0,
                 df |-> postings_len, postings_off |-> SizeofPostHeader,
                 postings_len |-> postings_len])

\* a builder that records the df of one block only
LexBuilder_add_term_df_of_one_block(lex, term, postings_off, postings_len) ==
    Append(lex, [term |-> term, term_len |-> Len(term), flags |-> 0,
                 df |-> IF postings_len > 1 THEN 1 ELSE postings_len,
                 postings_off |-> postings_off,
                 postings_len |-> postings_len])

LexBuilder_add_term(lex, term, postings_off, postings_len) ==
    Append(lex, [term |-> term, term_len |-> Len(term), flags |-> 0,
                 df |-> postings_len, postings_off |-> postings_off,
                 postings_len |-> postings_len])

\* the lexicon files write_to may produce: one per order qsort may leave
LexBuilder_write_to(lex) ==
    { [magic |-> "LEXI", version |-> 1, term_count |-> Len(recs), recs |-> recs] :
      recs \in qsort(lex) }

PostHeader == [magic |-> "POST", version |-> 1, data |-> <<>>]

(***************************************************************************)
(* The merge loop reads cur_term after br[min_i].next() has released the   *)
(* buffer it points to (indexer.cpp 665, 673, 677, 693).  What such a read *)
(* returns depends on the allocator the indexer is built with:             *)
(*   "keep"     free() leaves the bytes and the chunk is not handed out    *)
(*              again before the reads: the old bytes are read;            *)
(*   "scribble" free() stores its own list data in the chunk (glibc's      *)
(*              tcache does): heap data that is no term is read;           *)
(*   "reuse"    the malloc for the next term of the reader that has just   *)
(*              advanced returns the chunk: that term's bytes are read.    *)
(* cur_len is a copy and stays valid.                                      *)
(***************************************************************************)
HeapModes == {"keep", "scribble", "reuse"}

\* cur_len bytes of heap data that is no term
Junk(len) == [k \in 1..len |-> 0]

\* the first Len(old) bytes of the chunk after term (with its NUL) was stored
\* over old
Overlay(term, old) ==
    [k \in 1..Len(old) |-> IF k <= Len(term) THEN term[k]
                           ELSE IF k = Len(term) + 1 THEN 0 ELSE old[k]]

\* what the released buffer holds after reader r has advanced, when it
\* held seen before
Released(heap, seen, r) ==
    IF heap = "keep" THEN seen
    ELSE IF heap = "scribble" THEN Junk(Len(seen))
    ELSE IF BlockReader_has(r) THEN Overlay(r.blk[r.pos].term, seen)
    ELSE seen

\* the selection loop (indexer.cpp 654-662): -1 when no reader has a term
RECURSIVE select_min(_, _, _, _)
select_min(br, n, i, min_i) ==
    IF i >= n THEN min_i
    ELSE IF ~BlockReader_has(br[i]) THEN select_min(br, n, i + 1, min_i)
    ELSE IF min_i < 0 THEN select_min(br, n, i + 1, i)
    ELSE IF lex_cmp_str(br[i].blk[br[i].pos].term,
                        br[min_i].blk[br[min_i].pos].term) < 0
         THEN select_min(br, n, i + 1, i)
         ELSE select_min(br, n, i + 1, min_i)

\* the union loop (indexer.cpp 675-685) from reader i on, seen being the
\* bytes cur_term now reads as
RECURSIVE union_loop(_, _, _, _, _, _, _)
union_loop(heap, br, n, i, seen, cur_len, merged) ==
    IF i >= n THEN [br |-> br, merged |-> merged, seen |-> seen]
    ELSE IF ~BlockReader_has(br[i])
    THEN union_loop(heap, br, n, i + 1, seen, cur_len, merged)
    ELSE LET e == br[i].blk[br[i].pos]
         IN  IF Len(e.term) = cur_len /\ memcmp(e.term, seen, cur_len) = 0
             THEN LET out == merge_union_u32(merged, e.docs)
                      r   == BlockReader_next(br[i])
                  IN  union_loop(heap, [br EXCEPT ![i] = r], n, i + 1,
                                 Released(heap, seen, r), cur_len, out)
             ELSE union_loop(heap, br, n, i + 1, seen, cur_len, merged)

\* one iteration of the merge loop for the selected reader min_i: the
\* readers and the merged list after it, and the bytes add_term reads
merge_iteration(heap, br, n, min_i) ==
    LET e        == br[min_i].blk[br[min_i].pos]
        cur_len  == Len(e.term)
        r        == BlockReader_next(br[min_i])
        br1      == [br EXCEPT ![min_i] = r]
    IN  union_loop(heap, br1, n, 0, Released(heap, e.term, r), cur_len, e.docs)

(***************************************************************************)
(* Inputs.                                                                 *)
(***************************************************************************)
\* a manifest line as extract_json_string leaves it: ok_id is the result
\* for "doc_id", title and url are empty when the key is missing; file is
\* the content of <corpus>/<doc_id>.txt or NoFile
ManifestLine(ok_id, docid_str, title, url, file) ==
    [ok_id |-> ok_id, docid_str |-> docid_str, title |-> title, url |-> url,
     file |-> file]

ManifestLines ==
    { ManifestLine(FALSE, <<>>, B(<<"t">>), <<>>, NoFile),
      ManifestLine(TRUE, B(<<"x">>), <<>>, <<>>, NoFile),
      ManifestLine(TRUE, B(<<"d","1">>), B(<<"t">>), B(<<"u">>), File(B(<<"a">>))),
      ManifestLine(TRUE, B(<<"d","2">>), <<>>, <<>>,
                   File(B(<<"b"," ","A"," ","a","b",",","a","b">>))),
      ManifestLine(TRUE, B(<<"d","3">>), <<>>, B(<<"u">>), File(B(<<" ",".">>))) }

\* the three-document corpus of the end-to-end scenarios, in manifest order
\* A, B, C
ScenarioManifest ==
    << ManifestLine(TRUE, B(<<"A">>), <<>>, <<>>,
                    File(B(<<"H","e","l","l","o",","," ","h","e","l","l","o"," ",
                             "W","O","R","L","D",".">>))),
       ManifestLine(TRUE, B(<<"B">>), <<>>, <<>>,
                    File(B(<<"w","o","r","l","d"," ","o","f"," ",
                             "w","o","r","l","d","s">>))),
       ManifestLine(TRUE, B(<<"C">>), <<>>, <<>>,
                    File(B(<<"g","r","e","e","t","i","n","g","s">>))) >>

RECURSIVE SeqsUpTo(_, _)
SeqsUpTo(S, n) ==
    IF n = 0 THEN {<<>>}
    ELSE LET shorter == SeqsUpTo(S, n - 1)
         IN  shorter \cup { Append(s, x) : s \in { t \in shorter : Len(t) = n - 1 },
                                           x \in S }

\* mem_mb * 1024 * 1024, at the scale of the model's table sizes
MemLimits == {0, 120, 100000}

\* the block an earlier build with --mem-mb 0 wrote for its document
\* doc_id with the text txt, p being process_one_doc as it returned for the
\* document before
EarlierBlock(p, doc_id, txt) ==
    write_block(process_one_doc(File(txt), doc_id, TermTable_clear(p.tt), p.ds).tt)

\* the blocks directory a build may find: empty, or holding the two blocks
\* that an earlier build of the documents "a" and "a b" with --mem-mb 0
\* wrote there
EarlierBlocks(p0) ==
    <<File(write_block(p0.tt)), File(EarlierBlock(p0, 1, B(<<"a", " ", "b">>)))>>

BlocksDirs ==
    { <<>>,
      EarlierBlocks(process_one_doc(File(B(<<"a">>)), 0, TermTable_init(Pow2(TTCapLog2)),
                                    DocTermSet_init(Pow2(DSetCapLog2)))) }

(***************************************************************************)
(* stem_word_en (stemming.cpp): the Porter stemmer the query parser uses.  *)
(* A word is the buffer b[0..k]; bytes past k are never read before they   *)
(* are written, so the model keeps only b[0..k].  Indexes are those of the *)
(* source (0-based): b[i] of the source is At(w, i).                       *)
(***************************************************************************)
At(w, i) == w[i + 1]

RECURSIVE is_consonant(_, _)
is_consonant(w, i) ==
    LET ch == At(w, i)
    IN  IF ch \in {Ord("a"), Ord("e"), Ord("i"), Ord("o"), Ord("u")} THEN FALSE
        ELSE IF ch = Ord("y")
        THEN (IF i = 0 THEN TRUE ELSE ~is_consonant(w, i - 1))
        ELSE TRUE

\* the three loops of m_measure: ph = 0 leading consonants, 1 a vowel run,
\* 2 a consonant run
RECURSIVE m_loop(_, _, _, _, _)
m_loop(w, j, i, n, ph) ==
    IF i > j THEN n
    ELSE IF ph = 0
    THEN (IF ~is_consonant(w, i) THEN m_loop(w, j, i + 1, n, 1)
          ELSE m_loop(w, j, i + 1, n, 0))
    ELSE IF ph = 1
    THEN (IF is_consonant(w, i) THEN m_loop(w, j, i + 1, n + 1, 2)
          ELSE m_loop(w, j, i + 1, n, 1))
    ELSE (IF ~is_consonant(w, i) THEN m_loop(w, j, i + 1, n, 1)
          ELSE m_loop(w, j, i + 1, n, 2))

m_measure(w, j) == m_loop(w, j, 0, 0, 0)

vowel_in_stem(w, j) == \E i \in 0..j : ~is_consonant(w, i)

doublec(w, j) ==
    IF j < 1 THEN FALSE
    ELSE IF At(w, j) # At(w, j - 1) THEN FALSE
    ELSE is_consonant(w, j)

cvc(w, i) ==
    IF i < 2 THEN FALSE
    ELSE IF ~is_consonant(w, i) \/ is_consonant(w, i - 1) \/ ~is_consonant(w, i - 2)
    THEN FALSE
    ELSE At(w, i) \notin {Ord("w"), Ord("x"), Ord("y")}

\* ends_with(b, k, s, slen) with k = Len(w) - 1
ends_with(w, s) ==
    IF Len(s) > Len(w) THEN FALSE
    ELSE SubSeq(w, Len(w) - Len(s) + 1, Len(w)) = s

\* set_to(b, &k, s, slen, &j): b[0..j] followed by s
set_to(w, s, j) == SubSeq(w, 1, j + 1) \o s

\* "k -= n": the word without its last n bytes
Chop(w, n) == SubSeq(w, 1, Len(w) - n)

step1ab(w0) ==
    With(IF ends_with(w0, B(<<"s","s","e","s">>)) THEN Chop(w0, 2)
         ELSE IF ends_with(w0, B(<<"i","e","s">>)) THEN Chop(w0, 2)
         ELSE IF ends_with(w0, B(<<"s","s">>)) THEN w0
         ELSE IF ends_with(w0, B(<<"s">>)) THEN Chop(w0, 1)
         ELSE w0, LAMBDA w1 :
      LET k1   == Len(w1) - 1
          eed  == ends_with(w1, B(<<"e","e","d">>))
          ed   == ends_with(w1, B(<<"e","d">>)) /\ vowel_in_stem(w1, k1 - 2)
          ing  == ends_with(w1, B(<<"i","n","g">>)) /\ vowel_in_stem(w1, k1 - 3)
      IN  With(<<eed, ed, ing>>, LAMBDA f :
          With(IF f[1] THEN (IF m_measure(w1, k1 - 3) > 0 THEN Chop(w1, 1) ELSE w1)
               ELSE IF f[2] THEN Chop(w1, 2)
               ELSE IF f[3] THEN Chop(w1, 3)
               ELSE w1, LAMBDA w2 :
            With(IF f[1] \/ ~(f[2] \/ f[3]) THEN w2
                 ELSE IF ends_with(w2, B(<<"a","t">>))
                 THEN set_to(w2, B(<<"a","t","e">>), Len(w2) - 3)
                 ELSE IF ends_with(w2, B(<<"b","l">>))
                 THEN set_to(w2, B(<<"b","l","e">>), Len(w2) - 3)
                 ELSE IF ends_with(w2, B(<<"i","z">>))
                 THEN set_to(w2, B(<<"i","z","e">>), Len(w2) - 3)
                 ELSE IF doublec(w2, Len(w2) - 1)
                 THEN (IF At(w2, Len(w2) - 1) \notin {Ord("l"), Ord("s"), Ord("z")}
                       THEN Chop(w2, 1) ELSE w2)
                 ELSE IF m_measure(w2, Len(w2) - 1) = 1 /\ cvc(w2, Len(w2) - 1)
                 THEN set_to(w2, B(<<"e">>), Len(w2) - 1)
                 ELSE w2, LAMBDA w3 :
              IF ends_with(w3, B(<<"y">>)) /\ vowel_in_stem(w3, Len(w3) - 2)
              THEN [w3 EXCEPT ![Len(w3)] = Ord("i")]
              ELSE w3))))

Step2Rules ==
  <<[suf |-> B(<<"a","t","i","o","n","a","l">>), rep |-> B(<<"a","t","e">>)],
    [suf |-> B(<<"t","i","o","n","a","l">>), rep |-> B(<<"t","i","o","n">>)],
    [suf |-> B(<<"e","n","c","i">>), rep |-> B(<<"e","n","c","e">>)],
    [suf |-> B(<<"a","n","c","i">>), rep |-> B(<<"a","n","c","e">>)],
    [suf |-> B(<<"i","z","e","r">>), rep |-> B(<<"i","z","e">>)],
    [suf |-> B(<<"a","b","l","i">>), rep |-> B(<<"a","b","l","e">>)],
    [suf |-> B(<<"a","l","l","i">>), rep |-> B(<<"a","l">>)],
    [suf |-> B(<<"e","n","t","l","i">>), rep |-> B(<<"e","n","t">>)],
    [suf |-> B(<<"e","l","i">>), rep |-> B(<<"e">>)],
    [suf |-> B(<<"o","u","s","l","i">>), rep |-> B(<<"o","u","s">>)],
    [suf |-> B(<<"i","z","a","t","i","o","n">>), rep |-> B(<<"i","z","e">>)],
    [suf |-> B(<<"a","t","i","o","n">>), rep |-> B(<<"a","t","e">>)],
    [suf |-> B(<<"a","t","o","r">>), rep |-> B(<<"a","t","e">>)],
    [suf |-> B(<<"a","l","i","s","m">>), rep |-> B(<<"a","l">>)],
    [suf |-> B(<<"i","v","e","n","e","s","s">>), rep |-> B(<<"i","v","e">>)],
    [suf |-> B(<<"f","u","l","n","e","s","s">>), rep |-> B(<<"f","u","l">>)],
    [suf |-> B(<<"o","u","s","n","e","s","s">>), rep |-> B(<<"o","u","s">>)],
    [suf |-> B(<<"a","l","i","t","i">>), rep |-> B(<<"a","l">>)],
    [suf |-> B(<<"i","v","i","t","i">>), rep |-> B(<<"i","v","e">>)],
    [suf |-> B(<<"b","i","l","i","t","i">>), rep |-> B(<<"b","l","e">>)],
    [suf |-> B(<<"l","o","g","i">>), rep |-> B(<<"l","o","g">>)] >>

Step3Rules ==
  <<[suf |-> B(<<"i","c","a","t","e">>), rep |-> B(<<"i","c">>)],
    [suf |-> B(<<"a","t","i","v","e">>), rep |-> <<>>],
    [suf |-> B(<<"a","l","i","z","e">>), rep |-> B(<<"a","l">>)],
    [suf |-> B(<<"i","c","i","t","i">>), rep |-> B(<<"i","c">>)],
    [suf |-> B(<<"i","c","a","l">>), rep |-> B(<<"i","c">>)],
    [suf |-> B(<<"f","u","l">>), rep |-> <<>>],
    [suf |-> B(<<"n","e","s","s">>), rep |-> <<>>] >>

Step4Sufs ==
  <<B(<<"a","l">>),
    B(<<"a","n","c","e">>),
    B(<<"e","n","c","e">>),
    B(<<"e","r">>),
    B(<<"i","c">>),
    B(<<"a","b","l","e">>),
    B(<<"i","b","l","e">>),
    B(<<"a","n","t">>),
    B(<<"e","m","e","n","t">>),
    B(<<"m","e","n","t">>),
    B(<<"e","n","t">>),
    B(<<"i","o","n">>),
    B(<<"o","u">>),
    B(<<"i","s","m">>),
    B(<<"a","t","e">>),
    B(<<"i","t","i">>),
    B(<<"o","u","s">>),
    B(<<"i","v","e">>),
    B(<<"i","z","e">>) >>

\* the loop of step2 and of step3 from rule i on: the first rule whose
\* suffix matches is applied when m > 0, and ends the step either way
RECURSIVE apply_rules(_, _, _)
apply_rules(w, rules, i) ==
    IF i > Len(rules) THEN w
    ELSE IF ends_with(w, rules[i].suf)
    THEN With(Len(w) - 1 - Len(rules[i].suf), LAMBDA j :
           IF m_measure(w, j) > 0 THEN set_to(w, rules[i].rep, j) ELSE w)
    ELSE apply_rules(w, rules, i + 1)

step2(w) == apply_rules(w, Step2Rules, 1)

step3(w) == apply_rules(w, Step3Rules, 1)

RECURSIVE step4_from(_, _, _)
step4_from(w, sufs, i) ==
    IF i > Len(sufs) THEN w
    ELSE IF ends_with(w, sufs[i])
    THEN With(Len(w) - 1 - Len(sufs[i]), LAMBDA j :
           IF sufs[i] = B(<<"i","o","n">>)
              /\ (j < 0 \/ At(w, j) \notin {Ord("s"), Ord("t")})
           THEN w
           ELSE IF m_measure(w, j) > 1 THEN SubSeq(w, 1, j + 1) ELSE w)
    ELSE step4_from(w, sufs, i + 1)

step4(w) == step4_from(w, Step4Sufs, 1)

step5(w0) ==
    With(m_measure(w0, Len(w0) - 2), LAMBDA m :
      With(IF ends_with(w0, B(<<"e">>)) /\ (m > 1 \/ (m = 1 /\ ~cvc(w0, Len(w0) - 2)))
           THEN Chop(w0, 1) ELSE w0, LAMBDA w1 :
        IF m_measure(w1, Len(w1) - 1) > 1 /\ doublec(w1, Len(w1) - 1)
           /\ At(w1, Len(w1) - 1) = Ord("l")
        THEN Chop(w1, 1) ELSE w1))

\* porter_stem_inplace: the stemmed word (its length is the value returned)
porter_stem_inplace(w) ==
    IF Len(w) <= 2 THEN w
    ELSE IF ~\E i \in 1..Len(w) : w[i] >= Ord("a") /\ w[i] <= Ord("z") THEN w
    ELSE step5(step4(step3(step2(step1ab(w)))))

stem_word_en(w) == porter_stem_inplace(w)

(***************************************************************************)
(* Index (search_cli.cpp): the three files loaded into memory.             *)
(***************************************************************************)
\* Index::load: ok = 0 when a file cannot be read or has a bad header
Index_load(f_docs, f_lex, f_post) ==
    IF ~f_docs.exists \/ ~f_lex.exists \/ ~f_post.exists
    THEN [ok |-> 0, dh |-> [doc_count |-> 0], docs |-> <<>>, doc_pool |-> <<>>,
          lh |-> [term_count |-> 0], lex |-> <<>>, postings |-> <<>>,
          postings_size |-> 0]
    ELSE [ok |-> IF f_docs.content.magic = "DOCS" /\ f_docs.content.version = 1
                    /\ f_lex.content.magic = "LEXI" /\ f_lex.content.version = 1
                    /\ f_post.content.magic = "POST" /\ f_post.content.version = 1
                 THEN 1 ELSE 0,
          dh |-> [doc_count |-> f_docs.content.doc_count],
          docs |-> f_docs.content.recs,
          doc_pool |-> f_docs.content.pool,
          lh |-> [term_count |-> f_lex.content.term_count],
          lex |-> f_lex.content.recs,
          postings |-> f_post.content.data,
          postings_size |-> SizeofPostHeader + 4 * Len(f_post.content.data)]

Index_doc_count(idx) == idx.dh.doc_count

Index_term_count(idx) == idx.lh.term_count

\* Index::find_term: the 0-based index found, or -1 (return 0)
RECURSIVE find_term_loop(_, _, _, _)
find_term_loop(idx, t, lo, hi) ==
    IF lo >= hi THEN -1
    ELSE LET mid  == lo + ((hi - lo) \div 2)
             s    == idx.lex[mid + 1].term
             c0   == memcmp(t, s, Min(Len(t), Len(s)))
             c    == IF c0 # 0 THEN c0
                     ELSE IF Len(t) < Len(s) THEN -1
                     ELSE IF Len(t) > Len(s) THEN 1 ELSE 0
         IN  IF c = 0 THEN mid
             ELSE IF c < 0 THEN find_term_loop(idx, t, lo, mid)
             ELSE find_term_loop(idx, t, mid + 1, hi)

Index_find_term(idx, t) == find_term_loop(idx, t, 0, Index_term_count(idx))

\* Index::postings_ptr followed by the read of postings_len doc-ids:
\* [null |-> TRUE] when the run leaves the file
Index_postings(idx, r) ==
    IF r.postings_off + r.postings_len * 4 > idx.postings_size
    THEN [null |-> TRUE, a |-> <<>>]
    ELSE [null |-> FALSE,
          a |-> LET first == (r.postings_off - SizeofPostHeader) \div 4
                IN  SubSeq(idx.postings, first + 1, first + r.postings_len)]

(***************************************************************************)
(* op_and, op_or, op_not: two-pointer passes over sorted lists.            *)
(***************************************************************************)
RECURSIVE op_and_from(_, _, _, _, _)
op_and_from(a, b, i, j, out) ==
    IF i <= Len(a) /\ j <= Len(b)
    THEN IF a[i] = b[j] THEN op_and_from(a, b, i + 1, j + 1, Append(out, a[i]))
         ELSE IF a[i] < b[j] THEN op_and_from(a, b, i + 1, j, out)
         ELSE op_and_from(a, b, i, j + 1, out)
    ELSE out

op_and(a, b) == op_and_from(a, b, 1, 1, <<>>)

RECURSIVE op_or_from(_, _, _, _, _)
op_or_from(a, b, i, j, out) ==
    IF i <= Len(a) /\ j <= Len(b)
    THEN IF a[i] = b[j] THEN op_or_from(a, b, i + 1, j + 1, Append(out, a[i]))
         ELSE IF a[i] < b[j] THEN op_or_from(a, b, i + 1, j, Append(out, a[i]))
         ELSE op_or_from(a, b, i, j + 1, Append(out, b[j]))
    ELSE IF i <= Len(a) THEN op_or_from(a, b, i + 1, j, Append(out, a[i]))
    ELSE IF j <= Len(b) THEN op_or_from(a, b, i, j + 1, Append(out, b[j]))
    ELSE out

\* the two lists one after the other, without the two-pointer pass
op_or_concat(a, b) == a \o b

op_or(a, b) == op_or_from(a, b, 1, 1, <<>>)

\* the inner loop "while (i < na && a[i] < d) i++" (i is 0-based)
RECURSIVE skip_below(_, _, _)
skip_below(a, i, d) ==
    IF i < Len(a) /\ a[i + 1] < d THEN skip_below(a, i + 1, d) ELSE i

RECURSIVE op_not_from(_, _, _, _, _)
op_not_from(doc_count, a, d, i, out) ==
    IF d >= doc_count THEN out
    ELSE LET i1 == skip_below(a, i, d)
         IN  IF i1 < Len(a) /\ a[i1 + 1] = d
             THEN op_not_from(doc_count, a, d + 1, i1, out)
             ELSE op_not_from(doc_count, a, d + 1, i1, Append(out, d))

op_not(doc_count, a) == op_not_from(doc_count, a, 0, 0, <<>>)

(***************************************************************************)
(* TokStream: the query lexer.  i is the 0-based position in the line.     *)
(***************************************************************************)
Tok(type, text) == [type |-> type, text |-> text]

RECURSIVE skip_spaces(_, _)
skip_spaces(s, i) ==
    IF i < Len(s) /\ s[i + 1] \in {32, 9, 13, 10} THEN skip_spaces(s, i + 1) ELSE i

\* the loop that reads a TERM: the text (clamped to 255 bytes) and the
\* position after the run
RECURSIVE read_term(_, _, _)
read_term(s, i, text) ==
    IF i < Len(s) /\ is_ascii_alnum(s[i + 1])
    THEN read_term(s, i + 1,
                   IF Len(text) < 255 THEN Append(text, to_lower_ascii(s[i + 1]))
                   ELSE text)
    ELSE [text |-> text, i |-> i]

\* TokStream::next: the token and the position after it
TokStream_next(s, i0) ==
    LET i == skip_spaces(s, i0)
    IN  IF i >= Len(s) THEN [tok |-> Tok("T_END", <<>>), i |-> i]
        ELSE LET c == s[i + 1]
             IN  IF c = Ord("(") THEN [tok |-> Tok("T_LP", <<>>), i |-> i + 1]
                 ELSE IF c = Ord(")") THEN [tok |-> Tok("T_RP", <<>>), i |-> i + 1]
                 ELSE IF c = Ord("!") THEN [tok |-> Tok("T_NOT", <<>>), i |-> i + 1]
                 ELSE IF c = Ord("&")
                 THEN [tok |-> Tok("T_AND", <<>>),
                       i |-> IF i + 1 < Len(s) /\ s[i + 2] = Ord("&") THEN i + 2 ELSE i + 1]
                 ELSE IF c = Ord("|")
                 THEN [tok |-> Tok("T_OR", <<>>),
                       i |-> IF i + 1 < Len(s) /\ s[i + 2] = Ord("|") THEN i + 2 ELSE i + 1]
                 ELSE IF is_ascii_alnum(c)
                 THEN LET t == read_term(s, i, <<>>)
                      IN  [tok |-> Tok("T_TERM", t.text), i |-> t.i]
                 ELSE [tok |-> Tok("T_BAD", <<>>), i |-> i + 1]

(***************************************************************************)
(* to_rpn: shunting-yard with implicit AND.                                *)
(***************************************************************************)
\* a table in which AND and OR bind alike
precedence_and_as_or(t) == IF t = "T_NOT" THEN 3 ELSE IF t = "T_AND" THEN 1
                           ELSE IF t = "T_OR" THEN 1 ELSE 0

precedence(t) == IF t = "T_NOT" THEN 3 ELSE IF t = "T_AND" THEN 2
                 ELSE IF t = "T_OR" THEN 1 ELSE 0

is_right_assoc(t) == t = "T_NOT"

is_value_token(t) == t = "T_TERM" \/ t = "T_RP"

\* a test that forgets that "!" begins a value
can_start_value_without_not(t) == t = "T_TERM" \/ t = "T_LP"

can_start_value(t) == t = "T_TERM" \/ t = "T_LP" \/ t = "T_NOT"

\* normalize_term: the stem, clamped to 255 bytes
normalize_term(s) ==
    With(stem_word_en(s), LAMBDA w : IF Len(w) > 255 THEN SubSeq(w, 1, 255) ELSE w)

RpnItem(type, text) == [type |-> type, text |-> text]

\* the loop that pops operators of higher or equal precedence to the
\* output, then pushes op (search_cli.cpp 379-388 and 409-418); the top
\* of the stack is the last element
RECURSIVE push_operator(_, _, _)
push_operator(ops, out, op) ==
    IF Len(ops) = 0 THEN [ops |-> Append(ops, op), out |-> out]
    ELSE LET top == ops[Len(ops)]
             p1  == precedence(top)
             p2  == precedence(op)
         IN  IF top = "T_LP" THEN [ops |-> Append(ops, op), out |-> out]
             ELSE IF p1 > p2 \/ (p1 = p2 /\ ~is_right_assoc(op))
             THEN push_operator(SubSeq(ops, 1, Len(ops) - 1),
                                Append(out, RpnItem(top, <<>>)), op)
             ELSE [ops |-> Append(ops, op), out |-> out]

\* the loop run for ')' (search_cli.cpp 402-406)
RECURSIVE close_paren(_, _)
close_paren(ops, out) ==
    IF Len(ops) > 0 /\ ops[Len(ops)] # "T_LP"
    THEN close_paren(SubSeq(ops, 1, Len(ops) - 1),
                     Append(out, RpnItem(ops[Len(ops)], <<>>)))
    ELSE IF Len(ops) > 0 /\ ops[Len(ops)] = "T_LP"
    THEN [ops |-> SubSeq(ops, 1, Len(ops) - 1), out |-> out]
    ELSE [ops |-> ops, out |-> out]

\* a loop that sends an unmatched "(" to the output with the operators
RECURSIVE drain_ops_keeping_paren(_, _)
drain_ops_keeping_paren(ops, out) ==
    IF Len(ops) = 0 THEN out
    ELSE drain_ops_keeping_paren(SubSeq(ops, 1, Len(ops) - 1),
                                 Append(out, RpnItem(ops[Len(ops)], <<>>)))

\* the loop that empties the stack at the end (search_cli.cpp 424-429)
RECURSIVE drain_ops(_, _)
drain_ops(ops, out) ==
    IF Len(ops) = 0 THEN out
    ELSE LET top == ops[Len(ops)]
         IN  drain_ops(SubSeq(ops, 1, Len(ops) - 1),
                       IF top = "T_LP" THEN out ELSE Append(out, RpnItem(top, <<>>)))

\* the token loop of to_rpn (search_cli.cpp 372-422)
RECURSIVE to_rpn_loop(_, _, _, _, _)
to_rpn_loop(s, i, ops, out, prev) ==
    With(TokStream_next(s, i), LAMBDA n :
      IF n.tok.type = "T_BAD" THEN to_rpn_loop(s, n.i, ops, out, prev)
      ELSE IF n.tok.type = "T_END" THEN drain_ops(ops, out)
      ELSE With(IF is_value_token(prev) /\ can_start_value(n.tok.type)
                THEN push_operator(ops, out, "T_AND")
                ELSE [ops |-> ops, out |-> out], LAMBDA a :
             With(IF n.tok.type = "T_TERM"
                  THEN With(normalize_term(n.tok.text), LAMBDA text :
                         IF Len(text) > 0
                         THEN [ops |-> a.ops,
                               out |-> Append(a.out, RpnItem("T_TERM", text))]
                         ELSE a)
                  ELSE IF n.tok.type = "T_LP"
                  THEN [ops |-> Append(a.ops, "T_LP"), out |-> a.out]
                  ELSE IF n.tok.type = "T_RP"
                  THEN close_paren(a.ops, a.out)
                  ELSE push_operator(a.ops, a.out, n.tok.type), LAMBDA b :
               to_rpn_loop(s, n.i, b.ops, b.out, n.tok.type))))

to_rpn(line) == to_rpn_loop(line, 0, <<>>, <<>>, "T_END")

(***************************************************************************)
(* eval_rpn: the stack machine.  The top of the result stack is the last   *)
(* element; a Res is its list, n being the length.                         *)
(***************************************************************************)
\* ResStack::pop_safe: the value popped and the stack left
\* pop_safe answering the list [0] when the stack is empty
pop_safe_underflow(st) ==
    IF Len(st) = 0 THEN [res |-> <<0>>, st |-> st]
    ELSE [res |-> st[Len(st)], st |-> SubSeq(st, 1, Len(st) - 1)]

pop_safe(st) ==
    IF Len(st) = 0 THEN [res |-> <<>>, st |-> st]
    ELSE [res |-> st[Len(st)], st |-> SubSeq(st, 1, Len(st) - 1)]

\* the body of the loop over the postfix items, for one item
eval_item(idx, st, it) ==
    IF it.type = "T_TERM"
    THEN LET lex_i == Index_find_term(idx, it.text)
         IN  IF lex_i = -1 THEN Append(st, <<>>)
             ELSE LET r == idx.lex[lex_i + 1]
                      p == Index_postings(idx, r)
                  IN  IF p.null \/ r.postings_len = 0 THEN Append(st, <<>>)
                      ELSE Append(st, p.a)
    ELSE IF it.type = "T_NOT"
    THEN LET a == pop_safe(st)
         IN  Append(a.st, op_not(Index_doc_count(idx), a.res))
    ELSE IF it.type = "T_AND" \/ it.type = "T_OR"
    THEN LET b == pop_safe(st)
             a == pop_safe(b.st)
         IN  IF it.type = "T_AND"
             THEN (IF Len(a.res) = 0 \/ Len(b.res) = 0 THEN Append(a.st, <<>>)
                   ELSE Append(a.st, op_and(a.res, b.res)))
             ELSE (IF Len(a.res) = 0 /\ Len(b.res) = 0 THEN Append(a.st, <<>>)
                   ELSE IF Len(a.res) = 0 THEN Append(a.st, b.res)
                   ELSE IF Len(b.res) = 0 THEN Append(a.st, a.res)
                   ELSE Append(a.st, op_or(a.res, b.res)))
    ELSE st

RECURSIVE eval_loop(_, _, _, _)
eval_loop(idx, rpn, i, st) ==
    IF i > Len(rpn) THEN st
    ELSE eval_loop(idx, rpn, i + 1, eval_item(idx, st, rpn[i]))

eval_rpn(idx, rpn) == pop_safe(eval_loop(idx, rpn, 1, <<>>)).res

(***************************************************************************)
(* main of the search CLI.                                                 *)
(***************************************************************************)
RECURSIVE chomp(_)
chomp(s) ==
    IF Len(s) > 0 /\ s[Len(s)] \in {10, 13} THEN chomp(SubSeq(s, 1, Len(s) - 1))
    ELSE s

Index_doc_title(idx, id) ==
    LET r == idx.docs[id + 1]
    IN  SubSeq(idx.doc_pool, r.title_off + 1, r.title_off + r.title_len)

Index_doc_url(idx, id) ==
    LET r == idx.docs[id + 1]
    IN  SubSeq(idx.doc_pool, r.url_off + 1, r.url_off + r.url_len)

\* the loop that prints the result lines (search_cli.cpp 593-601): the
\* lines printed; i is 0-based
RECURSIVE print_loop(_, _, _, _, _)
print_loop(idx, res, i, lim, out) ==
    IF i < Len(res) /\ Len(out) < lim
    THEN LET id == res[i + 1]
         IN  IF id >= Index_doc_count(idx) THEN print_loop(idx, res, i + 1, lim, out)
             ELSE print_loop(idx, res, i + 1, lim,
                             Append(out, [id |-> id, title |-> Index_doc_title(idx, id),
                                          url |-> Index_doc_url(idx, id)]))
    ELSE out

\* command lines of the search CLI: --limit, --offset, --stats-only
SearchArgs ==
    { [limit |-> 50, offset |-> 0, stats_only |-> 0],
      [limit |-> 1, offset |-> 1, stats_only |-> 0],
      [limit |-> 1, offset |-> 1, stats_only |-> 1] }

(***************************************************************************)
(* State.                                                                  *)
(***************************************************************************)
VARIABLES
    heap,           \* how the allocator of the indexer treats released memory
    blk_io,         \* what the file system does with the block files written
    manifest,       \* the lines of the manifest file
    mem_limit,      \* main: mem_limit
    pc,             \* position in main of the indexer, then of the search CLI
    line_no,        \* number of manifest lines read by fgets
    doc_id,         \* main: doc_id
    block_id,       \* main: block_id
    docs,           \* main: DocsBuilder docs
    tt,             \* main: TermTable tt
    dset,           \* main: DocTermSet dset
    total_tokens,   \* main: total_tokens
    doc_tokens,     \* history: the tokens the tokenizer produced, per doc-id
    blocks_dir,     \* <out>/blocks: block_<k>.blk is blocks_dir[k + 1]
    docs_bin,       \* <out>/docs.bin
    lexicon_bin,    \* <out>/lexicon.bin
    postings_bin,   \* <out>/postings.bin
    br,             \* merge_blocks_to_index: the readers br[0..n-1]
    postings_cursor,\* merge_blocks_to_index: postings_cursor
    lex,            \* merge_blocks_to_index: the records of LexBuilder lex
    exit_code       \* exit status of the indexer, -1 while it runs

build_vars == <<heap, blk_io, manifest, mem_limit, pc, line_no, doc_id, block_id, docs, tt,
                dset, total_tokens, doc_tokens, blocks_dir, docs_bin,
                lexicon_bin, postings_bin, br, postings_cursor, lex, exit_code>>

VARIABLES
    args,           \* search main: limit, offset, stats_only
    idx,            \* search main: Index idx
    q_line,         \* search main: the line of the last query answered
    rpn,            \* search main: its postfix form
    res,            \* search main: its result list
    out_lines,      \* the result lines printed for it
    shown           \* search main: shown, as printed in [STATS]

query_vars == <<args, idx, q_line, rpn, res, out_lines, shown>>

VARIABLES
    law,            \* the two query lines of the law evaluated last
    lhs,            \* the result list of the first line
    rhs,            \* the result list of the second line
    expr            \* history: the expression the line typed was written from

law_vars == <<law, lhs, rhs, expr>>

vars == <<heap, blk_io, manifest, mem_limit, pc, line_no, doc_id, block_id, docs, tt,
          dset, total_tokens, doc_tokens, blocks_dir, docs_bin,
          lexicon_bin, postings_bin, br, postings_cursor, lex, exit_code,
          args, idx, q_line, rpn, res, out_lines, shown, law, lhs, rhs, expr>>

\* main up to the manifest loop (indexer.cpp 809-846), for a given input
BuildInitOn(io, h, m, lim, dir) ==
    /\ heap = h
    /\ blk_io = io
    /\ manifest = m
    /\ mem_limit = lim
    /\ pc = "read_line"
    /\ line_no = 0
    /\ doc_id = 0
    /\ block_id = 0
    /\ docs = DocsBuilder_init
    /\ tt = TermTable_init(Pow2(TTCapLog2))
    /\ dset = DocTermSet_init(Pow2(DSetCapLog2))
    /\ total_tokens = 0
    /\ doc_tokens = <<>>
    /\ blocks_dir = dir
    /\ docs_bin = NoFile
    /\ lexicon_bin = NoFile
    /\ postings_bin = NoFile
    /\ br = <<>>
    /\ postings_cursor = 0
    /\ lex = <<>>
    /\ exit_code = -1

\* the same on a file system that takes every block file whole
BuildInit(h, m, lim, dir) == BuildInitOn("ok", h, m, lim, dir)

\* every block written under the name of block 0
PutBlock_as_first(dir, k, blk) ==
    [i \in 1..(IF 1 > Len(dir) THEN 1 ELSE Len(dir)) |->
        IF i = 1 THEN File(blk) ELSE dir[i]]

\* fopen(path, "wb") and the writes of one block file in the directory
PutBlock(dir, k, blk) ==
    [i \in 1..(IF k + 1 > Len(dir) THEN k + 1 ELSE Len(dir)) |->
        IF i = k + 1 THEN File(blk) ELSE IF i <= Len(dir) THEN dir[i] ELSE NoFile]

(***************************************************************************)
(* The indexer's main.                                                     *)
(***************************************************************************)
\* the pass with doc_id++ reached by a line without doc_id as well
ReadLine_counting_every_line ==
    /\ pc = "read_line"
    /\ line_no < Len(manifest)
    /\ IF ~manifest[line_no + 1].ok_id
       THEN /\ line_no' = line_no + 1
            /\ doc_id' = doc_id + 1
            /\ UNCHANGED <<pc, docs, tt, dset, total_tokens, doc_tokens>>
       ELSE \E line \in {manifest[line_no + 1]} :
            \E p \in {process_one_doc(line.file, doc_id, tt, dset)} :
              /\ line_no' = line_no + 1
              /\ docs' = DocsBuilder_add_doc(docs,
                                             IF line.title = <<>> THEN line.docid_str
                                             ELSE line.title,
                                             line.url).docs
              /\ tt' = p.tt
              /\ dset' = p.ds
              /\ total_tokens' = total_tokens + Len(p.toks)
              /\ doc_tokens' = Append(doc_tokens, p.toks)
              /\ doc_id' = doc_id + 1
              /\ pc' = IF p.hang THEN "hang" ELSE "check_mem"
    /\ UNCHANGED <<heap, blk_io, manifest, mem_limit, block_id, blocks_dir, docs_bin,
                   lexicon_bin, postings_bin, br, postings_cursor, lex, exit_code>>
    /\ UNCHANGED query_vars
    /\ UNCHANGED law_vars

\* one pass of the manifest loop up to doc_id++ (indexer.cpp 848-873); a
\* line without doc_id goes straight to the next fgets
ReadLine ==
    /\ pc = "read_line"
    /\ line_no < Len(manifest)
    /\ IF ~manifest[line_no + 1].ok_id
       THEN /\ line_no' = line_no + 1
            /\ UNCHANGED <<pc, doc_id, docs, tt, dset, total_tokens, doc_tokens>>
       ELSE \E line \in {manifest[line_no + 1]} :
            \E p \in {process_one_doc(line.file, doc_id, tt, dset)} :
              /\ line_no' = line_no + 1
              /\ docs' = DocsBuilder_add_doc(docs,
                                             IF line.title = <<>> THEN line.docid_str
                                             ELSE line.title,
                                             line.url).docs
              /\ tt' = p.tt
              /\ dset' = p.ds
              /\ total_tokens' = total_tokens + Len(p.toks)
              /\ doc_tokens' = Append(doc_tokens, p.toks)
              /\ doc_id' = doc_id + 1
              /\ pc' = IF p.hang THEN "hang" ELSE "check_mem"
    /\ UNCHANGED <<heap, blk_io, manifest, mem_limit, block_id, blocks_dir, docs_bin,
                   lexicon_bin, postings_bin, br, postings_cursor, lex, exit_code>>
    /\ UNCHANGED query_vars
    /\ UNCHANGED law_vars

\* the end of the pass with the block written and the table left as it is
CheckMem_without_clear ==
    /\ pc = "check_mem"
    /\ IF TermTable_approx_mem_bytes(tt) >= mem_limit
       THEN /\ blocks_dir' = PutBlock(blocks_dir, block_id, write_block(tt))
            /\ block_id' = block_id + 1
            /\ tt' = tt
       ELSE UNCHANGED <<blocks_dir, block_id, tt>>
    /\ pc' = "read_line"
    /\ UNCHANGED <<heap, blk_io, manifest, mem_limit, line_no, doc_id, docs, dset, total_tokens,
                   doc_tokens, docs_bin, lexicon_bin, postings_bin, br,
                   postings_cursor, lex, exit_code>>
    /\ UNCHANGED query_vars
    /\ UNCHANGED law_vars

\* the end of the pass (indexer.cpp 894-900)
CheckMem ==
    /\ pc = "check_mem"
    /\ IF TermTable_approx_mem_bytes(tt) >= mem_limit
       THEN \E w \in write_block_to(blk_io, tt) :
              /\ block_id' = block_id + 1
              /\ IF w.opened
                 THEN /\ blocks_dir' = PutBlock(blocks_dir, block_id, w.blk)
                      /\ tt' = TermTable_clear(tt)
                      /\ pc' = "read_line"
                      /\ UNCHANGED exit_code
                 ELSE /\ pc' = "exit"
                      /\ exit_code' = 1
                      /\ UNCHANGED <<blocks_dir, tt>>
       ELSE /\ pc' = "read_line"
            /\ UNCHANGED <<blocks_dir, block_id, tt, exit_code>>
    /\ UNCHANGED <<heap, blk_io, manifest, mem_limit, line_no, doc_id, docs, dset, total_tokens,
                   doc_tokens, docs_bin, lexicon_bin, postings_bin, br,
                   postings_cursor, lex>>
    /\ UNCHANGED query_vars
    /\ UNCHANGED law_vars

\* fgets returns NULL; the final flush (indexer.cpp 902-910)
FinalFlush ==
    /\ pc = "read_line"
    /\ line_no >= Len(manifest)
    /\ IF tt.used > 0
       THEN \E w \in write_block_to(blk_io, tt) :
              /\ block_id' = block_id + 1
              /\ IF w.opened
                 THEN /\ blocks_dir' = PutBlock(blocks_dir, block_id, w.blk)
                      /\ tt' = TermTable_clear(tt)
                      /\ pc' = "write_docs"
                      /\ UNCHANGED exit_code
                 ELSE /\ pc' = "exit"
                      /\ exit_code' = 1
                      /\ UNCHANGED <<blocks_dir, tt>>
       ELSE /\ pc' = "write_docs"
            /\ UNCHANGED <<blocks_dir, block_id, tt, exit_code>>
    /\ UNCHANGED <<heap, blk_io, manifest, mem_limit, line_no, doc_id, docs, dset, total_tokens,
                   doc_tokens, docs_bin, lexicon_bin, postings_bin, br,
                   postings_cursor, lex>>
    /\ UNCHANGED query_vars
    /\ UNCHANGED law_vars

\* docs.write_to(docs_path) (indexer.cpp 912-914)
WriteDocs ==
    /\ pc = "write_docs"
    /\ docs_bin' = File(DocsBuilder_write_to(docs))
    /\ pc' = "merge_open"
    /\ UNCHANGED <<heap, blk_io, manifest, mem_limit, line_no, doc_id, block_id, docs, tt, dset,
                   total_tokens, doc_tokens, blocks_dir, lexicon_bin, postings_bin,
                   br, postings_cursor, lex, exit_code>>
    /\ UNCHANGED query_vars
    /\ UNCHANGED law_vars

(***************************************************************************)
(* merge_blocks_to_index.                                                  *)
(***************************************************************************)
\* the orders in which readdir may return the .blk files of the directory:
\* sequences of indexes into blocks_dir
ReaddirOrders(dir) ==
    LET present == { i \in 1..Len(dir) : dir[i].exists }
        n       == Cardinality(present)
    IN  { f \in [0..(n - 1) -> present] :
            \A i, j \in 0..(n - 1) : i # j => f[i] # f[j] }

\* opendir .. the open of postings.bin and lex.init (indexer.cpp 598-651)
MergeOpen ==
    /\ pc = "merge_open"
    /\ \E names \in ReaddirOrders(blocks_dir) :
          IF DOMAIN names = {}
          THEN /\ pc' = "exit"
               /\ exit_code' = 1
               /\ UNCHANGED <<br, postings_bin, postings_cursor, lex>>
          ELSE IF \E i \in DOMAIN names :
                     BlockReader_read_failed(BlockReader_open(blocks_dir[names[i]].content))
          THEN /\ pc' = "exit"
               /\ exit_code' = 1
               /\ UNCHANGED <<br, postings_bin, postings_cursor, lex>>
          ELSE /\ br' = [i \in DOMAIN names |-> BlockReader_open(blocks_dir[names[i]].content)]
               /\ postings_bin' = File(PostHeader)
               /\ postings_cursor' = SizeofPostHeader
               /\ lex' = <<>>
               /\ pc' = "merge"
               /\ UNCHANGED exit_code
    /\ UNCHANGED <<heap, blk_io, manifest, mem_limit, line_no, doc_id, block_id, docs, tt, dset,
                   total_tokens, doc_tokens, blocks_dir, docs_bin, lexicon_bin>>
    /\ UNCHANGED query_vars
    /\ UNCHANGED law_vars

\* one iteration of the merge loop (indexer.cpp 653-696)
MergeStep ==
    /\ pc = "merge"
    /\ \E min_i \in {select_min(br, Cardinality(DOMAIN br), 0, -1)} :
          /\ min_i >= 0
          /\ \E o \in {merge_iteration(heap, br, Cardinality(DOMAIN br), min_i)} :
                IF \E i \in DOMAIN o.br : BlockReader_read_failed(o.br[i])
                THEN /\ pc' = "exit"
                     /\ exit_code' = 1
                     /\ UNCHANGED <<br, postings_bin, postings_cursor, lex>>
                ELSE /\ br' = o.br
                     /\ postings_bin' = [postings_bin EXCEPT !.content.data = @ \o o.merged]
                     /\ postings_cursor' = postings_cursor + Len(o.merged) * 4
                     /\ lex' = LexBuilder_add_term(lex, o.seen, postings_cursor,
                                                   Len(o.merged))
                     /\ UNCHANGED <<pc, exit_code>>
    /\ UNCHANGED <<heap, blk_io, manifest, mem_limit, line_no, doc_id, block_id, docs, tt,
                   dset, total_tokens, doc_tokens, blocks_dir, docs_bin,
                   lexicon_bin>>
    /\ UNCHANGED query_vars
    /\ UNCHANGED law_vars

\* the loop ends; fclose(fp), lex.write_to(out_lex) and the return of main
\* (indexer.cpp 663, 698-711, 923-942)
WriteLex ==
    /\ pc = "merge"
    /\ select_min(br, Cardinality(DOMAIN br), 0, -1) < 0
    /\ lexicon_bin' \in { File(l) : l \in LexBuilder_write_to(lex) }
    /\ pc' = "exit"
    /\ exit_code' = 0
    /\ UNCHANGED <<heap, blk_io, manifest, mem_limit, line_no, doc_id, block_id, docs, tt, dset,
                   total_tokens, doc_tokens, blocks_dir, docs_bin, postings_bin,
                   br, postings_cursor, lex>>
    /\ UNCHANGED query_vars
    /\ UNCHANGED law_vars

InitBuild ==
    \E h \in HeapModes, m \in SeqsUpTo(ManifestLines, MaxLines) \cup {ScenarioManifest},
       lim \in MemLimits, dir \in BlocksDirs :
        BuildInit(h, m, lim, dir)


\* no query answered yet
QueryInit ==
    /\ args = [limit |-> 50, offset |-> 0, stats_only |-> 0]
    /\ idx = Index_load(NoFile, NoFile, NoFile)
    /\ q_line = <<>>
    /\ rpn = <<>>
    /\ res = <<>>
    /\ out_lines = <<>>
    /\ shown = 0

\* no law evaluated yet
LawInit ==
    /\ law = <<>>
    /\ lhs = <<>>
    /\ rhs = <<>>
    /\ expr = <<>>

\* the search CLI is started on the out directory after the indexer has
\* exited: argument parsing and idx.load (search_cli.cpp 537-563)
StartSearch ==
    /\ pc = "exit"
    /\ \E a \in SearchArgs : args' = a
    /\ idx' = Index_load(docs_bin, lexicon_bin, postings_bin)
    /\ pc' = IF idx'.ok = 1 THEN "query_loop" ELSE "load_failed"
    /\ UNCHANGED <<q_line, rpn, res, out_lines, shown>>
    /\ UNCHANGED law_vars
    /\ UNCHANGED <<heap, blk_io, manifest, mem_limit, line_no, doc_id, block_id, docs, tt,
                   dset, total_tokens, doc_tokens, blocks_dir, docs_bin,
                   lexicon_bin, postings_bin, br, postings_cursor, lex, exit_code>>

\* one pass of the query loop for the line fgets returned
\* (search_cli.cpp 572-614)
AnswerLine(raw) ==
    LET line    == chomp(raw)
        only_ws == \A k \in 1..Len(line) : line[k] \in {32, 9}
    IN  IF only_ws
        THEN UNCHANGED <<q_line, rpn, res, out_lines, shown>>
        ELSE /\ q_line' = line
             /\ rpn' = to_rpn(line)
             /\ res' = eval_rpn(idx, rpn')
             /\ out_lines' = IF args.stats_only = 0
                             THEN print_loop(idx, res', args.offset, args.limit, <<>>)
                             ELSE <<>>
             /\ shown' = IF args.stats_only = 0 THEN Len(out_lines')
                         ELSE IF args.offset < Len(res')
                         THEN Min(Len(res') - args.offset, args.limit)
                         ELSE 0


\* the lines typed at the search CLI
QHello == B(<<"h","e","l","l","o">>)
QWorld == B(<<"w","o","r","l","d">>)
QHelloAndWorld == B(<<"h","e","l","l","o"," ","&"," ","w","o","r","l","d">>)
QHelloOrGreetings ==
    B(<<"h","e","l","l","o"," ","|"," ","g","r","e","e","t","i","n","g","s">>)
QNotHello == B(<<"!","h","e","l","l","o">>)
QParenAndNotWorld ==
    B(<<"(","h","e","l","l","o"," ","|"," ","g","r","e","e","t","i","n","g","s",")",
        " ","&"," ","!","w","o","r","l","d">>)

QueryLines ==
    { B(<<"a">>), B(<<"A","b">>), B(<<"!","!","a">>), B(<<"a"," ","&"," ","!","a">>),
      B(<<"a","|","!","a">>), B(<<"!">>), B(<<"&">>), B(<<"(",")">>),
      B(<<"|","|"," ","#">>), B(<<" ">>),
      QHello, QWorld, QHelloAndWorld, QHelloOrGreetings, QNotHello, QParenAndNotWorld }

\* stdin holds one line of the set lines: the pass of the query loop for it;
\* the next fgets returns NULL and main returns (search_cli.cpp 572-620)
QueryOf(lines) ==
    /\ pc = "query_loop"
    /\ \E raw \in lines : AnswerLine(raw)
    /\ pc' = "search_exit"
    /\ UNCHANGED <<args, idx>>
    /\ UNCHANGED <<heap, blk_io, manifest, mem_limit, line_no, doc_id, block_id, docs, tt,
                   dset, total_tokens, doc_tokens, blocks_dir, docs_bin,
                   lexicon_bin, postings_bin, br, postings_cursor, lex, exit_code>>
    /\ UNCHANGED law_vars

Query == QueryOf(QueryLines)

Init == InitBuild /\ QueryInit /\ LawInit

Next == ReadLine \/ CheckMem \/ FinalFlush \/ WriteDocs \/ MergeOpen
           \/ MergeStep \/ WriteLex \/ StartSearch \/ Query

Spec == Init /\ [][Next]_vars

(***************************************************************************)
(* The search CLI on a given index: the inputs of the specifications that  *)
(* exercise the query parser and the evaluator alone.                      *)
(***************************************************************************)
\* longest query line drawn
MaxQueryLen == 3

\* the strictly ascending lists of doc-ids below n
AscLists(n) ==
    { l \in SeqsUpTo(0..(n - 1), n) : \A i \in 1..Len(l), j \in 1..Len(l) : i < j => l[i] < l[j] }

\* the records lex.add_term has added and the postings written when the
\* merge loop has emitted terms[k..] with the lists posts[k..]; a term that
\* occurs in no document is in no block
RECURSIVE index_records(_, _, _, _, _)
index_records(terms, posts, k, lex_recs, data) ==
    IF k > Len(terms) THEN [lex |-> lex_recs, data |-> data]
    ELSE IF Len(posts[k]) = 0 THEN index_records(terms, posts, k + 1, lex_recs, data)
    ELSE index_records(terms, posts, k + 1,
                       LexBuilder_add_term(lex_recs, terms[k],
                                           SizeofPostHeader + 4 * Len(data),
                                           Len(posts[k])),
                       data \o posts[k])

\* the DocsBuilder after n documents titled "t" with url "u"
RECURSIVE docs_of(_)
docs_of(n) ==
    IF n = 0 THEN DocsBuilder_init
    ELSE DocsBuilder_add_doc(docs_of(n - 1), B(<<"t">>), B(<<"u">>)).docs

\* the index loaded from the files a build writes for n documents in which
\* the term terms[k] (ascending) occurs in exactly the documents posts[k]
IndexOf(n, terms, posts) ==
    LET r == index_records(terms, posts, 1, <<>>, <<>>)
    IN  Index_load(File(DocsBuilder_write_to(docs_of(n))),
                   File(CHOOSE l \in LexBuilder_write_to(r.lex) : TRUE),
                   File([PostHeader EXCEPT !.data = r.data]))

LawTerms == <<B(<<"a">>), B(<<"b">>), B(<<"c">>)>>

\* the state of a machine on which no build runs
NoBuild ==
    /\ heap = "keep"
    /\ blk_io = "ok"
    /\ manifest = <<>>
    /\ mem_limit = 0
    /\ line_no = 0
    /\ doc_id = 0
    /\ block_id = 0
    /\ docs = DocsBuilder_init
    /\ tt = TermTable_init(Pow2(TTCapLog2))
    /\ dset = DocTermSet_init(Pow2(DSetCapLog2))
    /\ total_tokens = 0
    /\ doc_tokens = <<>>
    /\ blocks_dir = <<>>
    /\ docs_bin = NoFile
    /\ lexicon_bin = NoFile
    /\ postings_bin = NoFile
    /\ br = <<>>
    /\ postings_cursor = 0
    /\ lex = <<>>
    /\ exit_code = 0

\* the search CLI has loaded the index ix with the command line a
Loaded(ix, a) ==
    /\ pc = "query_loop"
    /\ args = a
    /\ idx = ix
    /\ q_line = <<>>
    /\ rpn = <<>>
    /\ res = <<>>
    /\ out_lines = <<>>
    /\ shown = 0

(***************************************************************************)
(* QuerySpec: every line of at most MaxQueryLen bytes over QueryAlphabet,  *)
(* typed at the search CLI on one of three indexes.                        *)
(***************************************************************************)
QueryAlphabet == B(<<"a", "b", "!", "&", "|", "(", ")", " ", "#">>)

QueryIndexes ==
    { IndexOf(0, LawTerms, <<<<>>, <<>>, <<>>>>),
      IndexOf(2, LawTerms, <<<<0>>, <<0, 1>>, <<>>>>),
      IndexOf(3, LawTerms, <<<<1>>, <<>>, <<0, 2>>>>) }

QueryLinesUpTo(n) == SeqsUpTo({ QueryAlphabet[i] : i \in 1..Len(QueryAlphabet) }, n)

QuerySpecInit ==
    /\ NoBuild
    /\ \E ix \in QueryIndexes, a \in SearchArgs : Loaded(ix, a)
    /\ LawInit

TypeLine == QueryOf(QueryLinesUpTo(MaxQueryLen))

QuerySpecNext == TypeLine

QuerySpec == QuerySpecInit /\ [][QuerySpecNext]_vars

(***************************************************************************)
(* LawSpec: the evaluator on the postfix forms of the two sides of a law,  *)
(* for every index over AlgDocs documents in which the terms a, b, c have  *)
(* the posting lists A, B, C.                                              *)
(***************************************************************************)
LawSpecInit ==
    /\ NoBuild
    /\ \E la \in AscLists(AlgDocs), lb \in AscLists(AlgDocs), lc \in AscLists(AlgDocs) :
          Loaded(IndexOf(AlgDocs, LawTerms, <<la, lb, lc>>),
                 [limit |-> 50, offset |-> 0, stats_only |-> 0])
    /\ LawInit

\* to_rpn and eval_rpn on the two lines
EvalLaw(l1, l2) ==
    /\ pc = "query_loop"
    /\ law' = <<l1, l2>>
    /\ lhs' = eval_rpn(idx, to_rpn(l1))
    /\ rhs' = eval_rpn(idx, to_rpn(l2))
    /\ UNCHANGED expr
    /\ UNCHANGED build_vars
    /\ UNCHANGED query_vars

\* A op B and B op A
Commute ==
    \E op \in {"&", "|"} : EvalLaw(B(<<"a", op, "b">>), B(<<"b", op, "a">>))

\* (A op B) op C and A op (B op C)
Associate ==
    \E op \in {"&", "|"} :
        EvalLaw(B(<<"(", "a", op, "b", ")", op, "c">>),
                B(<<"a", op, "(", "b", op, "c", ")">>))

LawSpecNext == Commute \/ Associate

LawSpec == LawSpecInit /\ [][LawSpecNext]_vars

(***************************************************************************)
(* Properties of the index a build leaves.                                 *)
(***************************************************************************)
StrictlyAscending(l) == \A i \in 1..(Len(l) - 1) : l[i] < l[i + 1]

Range(l) == { l[i] : i \in 1..Len(l) }

\* the indexer has returned 0: the three files of the index are written
BuildCompleted == exit_code = 0 /\ docs_bin.exists /\ lexicon_bin.exists

\* the postings run that the lexicon record R names in postings.bin
PostingsRun(R) ==
    SubSeq(postings_bin.content.data,
           (R.postings_off - SizeofPostHeader) \div 4 + 1,
           (R.postings_off - SizeofPostHeader) \div 4 + R.postings_len)

\* every .blk file of the blocks directory was written by this build
NoStaleBlock == \A i \in 1..Len(blocks_dir) : blocks_dir[i].exists => i <= block_id

\* C1: after any build, for every lexicon record R the postings run named
\* by (R.postings_off, R.postings_len) is strictly ascending and every
\* value in it is less than the doc_count of the docs.bin of the same
\* build.  (Stated for the builds in which a read of released memory
\* returns the old bytes, so that a failure does not rest on that read.)
C1_PostingsAscendingBelowDocCount ==
    (BuildCompleted /\ heap = "keep") =>
        \A k \in 1..Len(lexicon_bin.content.recs) :
            /\ StrictlyAscending(PostingsRun(lexicon_bin.content.recs[k]))
            /\ \A v \in Range(PostingsRun(lexicon_bin.content.recs[k])) :
                  v < docs_bin.content.doc_count

\* C2: after any build the records of lexicon.bin are strictly ascending
\* under the (bytes, then length) order, so no two records carry the same
\* term, whatever the number of blocks and the order in which they are
\* opened.  (Stated for the builds whose blocks directory holds no block of
\* an earlier build.)
C2_LexiconStrictlyAscending ==
    (BuildCompleted /\ NoStaleBlock) =>
        \A k \in 1..(Len(lexicon_bin.content.recs) - 1) :
            lex_cmp_str(lexicon_bin.content.recs[k].term,
                        lexicon_bin.content.recs[k + 1].term) < 0

\* the doc-ids of the documents whose token stream contains t
DocsContaining(t) == { d - 1 : d \in { e \in 1..Len(doc_tokens) : t \in Range(doc_tokens[e]) } }

\* find_term(t) succeeds on the loaded index and the record found has as
\* postings exactly the ascending list of the doc-ids in ids
FoundWithPostings(t, ids) ==
    /\ Index_find_term(idx, t) # -1
    /\ ~Index_postings(idx, idx.lex[Index_find_term(idx, t) + 1]).null
    /\ StrictlyAscending(Index_postings(idx, idx.lex[Index_find_term(idx, t) + 1]).a)
    /\ Range(Index_postings(idx, idx.lex[Index_find_term(idx, t) + 1]).a) = ids

\* C3: build-then-read round trip: after a build, for every token t that
\* the tokenizer produced from any document, find_term(t) succeeds and the
\* postings of the record found are exactly the doc-ids of the documents
\* whose token stream contains t.  (Stated for the builds whose blocks
\* directory holds no block of an earlier build.)
C3_BuildThenRead ==
    (pc = "query_loop" /\ NoStaleBlock) =>
        \A d \in 1..Len(doc_tokens) : \A t \in Range(doc_tokens[d]) :
            FoundWithPostings(t, DocsContaining(t))

(***************************************************************************)
(* The per-document dedup set at its load threshold.                       *)
(***************************************************************************)
Saturated(ds) == ds.used * 10 >= ds.cap * 8

\* the terms the dedup set holds
DsetTerms == { dset.tab[i].term : i \in { j \in 0..(dset.cap - 1) : dset.tab[j].live } }

\* t was first met, in the document just processed, when the set was
\* already at its threshold: the set is saturated and never took t
MetAfterThreshold(t) ==
    /\ pc = "check_mem"
    /\ t \in Range(doc_tokens[doc_id])
    /\ Saturated(dset)
    /\ t \notin DsetTerms

\* the term table holds t with d as the last posting
HasPosting(t, d) ==
    \E i \in 0..(tt.cap - 1) :
        /\ tt.tab[i].live
        /\ tt.tab[i].term = t
        /\ Len(tt.tab[i].post.a) > 0
        /\ tt.tab[i].post.a[Len(tt.tab[i].post.a)] = d

\* terms offered to a saturated set
SaturationProbes == { B(<<"a">>), B(<<"a", "b">>), B(<<"z">>) }

C5_EmptyCorpusBuild ==
    (pc = "exit" /\ total_tokens = 0 /\ NoStaleBlock) =>
        /\ exit_code = 0
        /\ docs_bin.exists /\ lexicon_bin.exists /\ postings_bin.exists
        /\ docs_bin.content.magic = "DOCS"
        /\ lexicon_bin.content.magic = "LEXI"
        /\ postings_bin.content.magic = "POST"
        /\ docs_bin.content.doc_count = doc_id
        /\ lexicon_bin.content.term_count = 0

(***************************************************************************)
(* Properties of the answers of the search CLI.                            *)
(***************************************************************************)
\* the line holds no byte of a term token
NoTermToken(line) == \A k \in 1..Len(line) : ~is_ascii_alnum(line[k])

HasNot(line) == \E k \in 1..Len(line) : line[k] = Ord("!")

\* the list 0, 1, ..., n - 1
FullList(n) == [i \in 1..n |-> i - 1]

\* C6 (as amended): a query line that contains no term token and no "!"
\* (only "&", "|", parentheses and unknown bytes) evaluates to the empty
\* result with zero hits, for any doc_count; a line with no term token
\* that contains "!" evaluates to the empty result or to the full list
\* [0, doc_count).
C6_NoTermNoNotIsEmpty ==
    (pc = "search_exit" /\ NoTermToken(q_line)) =>
        /\ ~HasNot(q_line) => (res = <<>> /\ shown = 0 /\ out_lines = <<>>)
        /\ res \in {<<>>, FullList(Index_doc_count(idx))}

\* the line "&" has been answered over an index that holds documents
C6_LoneAndAnswered ==
    /\ pc = "search_exit"
    /\ q_line = B(<<"&">>)
    /\ Index_doc_count(idx) > 0
    /\ rpn = <<RpnItem("T_AND", <<>>)>>
    /\ res = <<>>
    /\ shown = 0

\* C6 (as stated): a query line that contains no term token (only
\* operators, parentheses and unknown bytes) evaluates to the empty result
\* with zero hits, for any doc_count.
C6_NoTermIsEmpty ==
    (pc = "search_exit" /\ NoTermToken(q_line)) => (res = <<>> /\ shown = 0)

\* C7: on the corpus A = "Hello, hello WORLD.", B = "world of worlds",
\* C = "greetings" built in manifest order A, B, C, the queries return:
\* hello -> [0], world -> [0, 1], hello & world -> [0], !hello -> [1, 2].
C7_ScenarioHelloWorld ==
    (pc = "search_exit" /\ manifest = ScenarioManifest) =>
        /\ q_line = QHello => res = <<0>>
        /\ q_line = QWorld => res = <<0, 1>>
        /\ q_line = QHelloAndWorld => res = <<0>>
        /\ q_line = QNotHello => res = <<1, 2>>

\* C8: on the same corpus, hello | greetings returns [0, 2] and
\* (hello | greetings) & !world returns [2].  (Stated for the builds in
\* which a read of released memory returns the old bytes and whose blocks
\* directory holds no block of an earlier build.)
C8_ScenarioGreetings ==
    (pc = "search_exit" /\ manifest = ScenarioManifest /\ heap = "keep"
       /\ NoStaleBlock) =>
        /\ q_line = QHelloOrGreetings => res = <<0, 2>>
        /\ q_line = QParenAndNotWorld => res = <<2>>

\* C9: for all strictly ascending doc-id lists A, B, C, evaluating the
\* postfix forms of A op B and B op A, and of (A op B) op C and
\* A op (B op C), gives the same list for op = AND and for op = OR,
\* including when one or more operands are empty.
C9_AndOrCommuteAssociate == law # <<>> => lhs = rhs

\* the two groupings of OR have been evaluated with A empty and at least
\* two documents in the result
C9_OrGroupingsWithEmptyOperand ==
    /\ law = <<B(<<"(", "a", "|", "b", ")", "|", "c">>),
               B(<<"a", "|", "(", "b", "|", "c", ")">>)>>
    /\ eval_rpn(idx, to_rpn(B(<<"a">>))) = <<>>
    /\ eval_rpn(idx, to_rpn(B(<<"b">>))) # <<>>
    /\ eval_rpn(idx, to_rpn(B(<<"c">>))) # <<>>
    /\ Len(lhs) >= 2
    /\ lhs = rhs

\* the result of the postfix items evaluated from the stack st
EvalFrom(st, items) == pop_safe(eval_loop(idx, items, 1, st)).res

\* C10: for every posting list A read from the index, NOT(NOT A) = A,
\* A AND NOT A is empty, and A OR NOT A is the full list 0..doc_count-1.
C10_ComplementLaws ==
    pc = "query_loop" =>
        \A k \in 1..Index_term_count(idx) :
            \E A \in {Index_postings(idx, idx.lex[k]).a} :
                /\ EvalFrom(<<A>>, <<RpnItem("T_NOT", <<>>), RpnItem("T_NOT", <<>>)>>) = A
                /\ EvalFrom(<<A, A>>, <<RpnItem("T_NOT", <<>>), RpnItem("T_AND", <<>>)>>) = <<>>
                /\ EvalFrom(<<A, A>>, <<RpnItem("T_NOT", <<>>), RpnItem("T_OR", <<>>)>>)
                     = FullList(Index_doc_count(idx))

(***************************************************************************)
(* Properties of the manifest loop.                                        *)
(***************************************************************************)
\* the number of lines with a doc_id field among the first k lines
LinesWithDocId(k) == Cardinality({ i \in 1..k : manifest[i].ok_id })

\* C11: doc-ids are dense and zero-based in manifest order: the k-th line
\* that carries a doc_id gets doc-id k-1 and one docs.bin record, also when
\* its corpus file cannot be opened; a line without doc_id consumes no
\* doc-id and adds no record; the final doc_count is the number of lines
\* with a doc_id.
C11_DenseDocIds ==
    /\ pc \in {"read_line", "check_mem"} =>
          /\ doc_id = LinesWithDocId(line_no)
          /\ Len(docs.recs) = doc_id
          /\ Len(doc_tokens) = doc_id
    /\ pc = "check_mem" =>
          \A t \in Range(doc_tokens[doc_id]) :
              HasPosting(t, LinesWithDocId(line_no) - 1)
    /\ docs_bin.exists =>
          /\ docs_bin.content.doc_count = LinesWithDocId(Len(manifest))
          /\ Len(docs_bin.content.recs) = LinesWithDocId(Len(manifest))

\* a line without doc_id, then a line whose corpus file cannot be opened,
\* have been read: the second line has doc-id 0 and its record
C11_SkippedLineThenMissingFile ==
    /\ pc = "check_mem"
    /\ line_no = 2
    /\ ~manifest[1].ok_id
    /\ manifest[2].ok_id /\ ~manifest[2].file.exists
    /\ doc_id = 1
    /\ Len(docs.recs) = 1

\* a step that writes block number block_id from the term table and clears
\* the table
Flushed ==
    /\ blocks_dir' = PutBlock(blocks_dir, block_id, write_block(tt))
    /\ block_id' = block_id + 1
    /\ tt' = TermTable_clear(tt)
    /\ tt'.used = 0

\* C12: whenever approx_mem_bytes() is at or above the budget after a
\* document has been processed, a block is written and the term table
\* cleared before any token of the next document is inserted; no flush
\* happens while approx_mem_bytes() is below the budget, except the final
\* flush at the end of the manifest.
C12_FlushAtBudgetOnly ==
    [][ /\ (pc = "check_mem" /\ TermTable_approx_mem_bytes(tt) >= mem_limit) =>
              (Flushed /\ pc' = "read_line")
        /\ (pc = "check_mem" /\ TermTable_approx_mem_bytes(tt) < mem_limit) =>
              UNCHANGED <<blocks_dir, block_id, tt>>
        /\ (pc = "read_line" /\ tt' # tt /\ pc' = "check_mem") =>
              (tt.used = 0 \/ TermTable_approx_mem_bytes(tt) < mem_limit)
        /\ (block_id' # block_id \/ blocks_dir' # blocks_dir) =>
              \/ pc = "check_mem" /\ TermTable_approx_mem_bytes(tt) >= mem_limit
              \/ pc = "read_line" /\ line_no >= Len(manifest) /\ pc' = "write_docs"
      ]_vars

\* two documents with tokens have been processed under a budget of 120
\* bytes: no block after the first, one block and a cleared table after
\* the second
C12_SecondDocumentFlushed ==
    /\ pc = "read_line"
    /\ mem_limit = 120
    /\ doc_id = 2
    /\ doc_tokens[1] # <<>> /\ doc_tokens[2] # <<>>
    /\ block_id = 1
    /\ tt.used = 0

(***************************************************************************)
(* The tokenizer on its own: one document, read by one pass of the         *)
(* manifest loop.                                                          *)
(***************************************************************************)
MaxDocLen == 3

\* bytes of the short documents: a letter, a capital, a digit, a space, an
\* underscore and a byte above 127
DocBytes == {97, 66, 55, 32, 95, 233}

\* runs of n capitals, followed by ".b"
LongRun(n) == [i \in 1..n |-> 65] \o <<46, 98>>

TokDocs == SeqsUpTo(DocBytes, MaxDocLen)
             \cup {LongRun(TOK_MAX - 2), LongRun(TOK_MAX - 1), LongRun(TOK_MAX),
                   LongRun(TOK_MAX + 44)}

TokSpecInit ==
    /\ \E txt \in TokDocs :
          BuildInit("keep", <<ManifestLine(TRUE, B(<<"d">>), <<>>, <<>>, File(txt))>>,
                    100000, <<>>)
    /\ QueryInit
    /\ LawInit

TokSpecNext == ReadLine

TokSpec == TokSpecInit /\ [][TokSpecNext]_vars

\* the bytes [0-9A-Za-z]
IsAlnumByte(b) == b \in 48..57 \/ b \in 65..90 \/ b \in 97..122

\* the positions at which a maximal run of such bytes starts in buf
RunStarts(buf) ==
    { i \in 1..Len(buf) : IsAlnumByte(buf[i]) /\ (i = 1 \/ ~IsAlnumByte(buf[i - 1])) }

\* the last position of the run that starts at i
RunEnd(buf, i) ==
    CHOOSE j \in i..Len(buf) :
        /\ \A k \in i..j : IsAlnumByte(buf[k])
        /\ (j = Len(buf) \/ ~IsAlnumByte(buf[j + 1]))

\* the maximal runs of buf in order, capitals lowered
AlnumRuns(buf) ==
    [n \in 1..Cardinality(RunStarts(buf)) |->
        With(CHOOSE i \in RunStarts(buf) :
                 Cardinality({ x \in RunStarts(buf) : x < i }) = n - 1,
             LAMBDA i :
               [k \in 1..(RunEnd(buf, i) - i + 1) |->
                   IF buf[i + k - 1] \in 65..90 THEN buf[i + k - 1] + 32
                   ELSE buf[i + k - 1]])]

\* the first min(L, 255) bytes of each run
ClampedRuns(runs) ==
    [k \in 1..Len(runs) |->
        SubSeq(runs[k], 1, IF Len(runs[k]) < 255 THEN Len(runs[k]) ELSE 255)]

\* C13: each maximal run of ASCII alphanumeric bytes in a document yields
\* exactly one token, equal to the lowercased first min(L, 255) bytes of
\* the run of length L; a run longer than 255 bytes is never split into a
\* second token, and no token contains a byte outside [0-9a-z].
C13_OneTokenPerRun ==
    (pc = "check_mem" /\ doc_id = 1 /\ manifest[line_no].file.exists) =>
        /\ doc_tokens[1] = ClampedRuns(AlnumRuns(manifest[line_no].file.content))
        /\ total_tokens = Len(doc_tokens[1])
        /\ \A k \in 1..Len(doc_tokens[1]) :
              /\ Len(doc_tokens[1][k]) \in 1..255
              /\ \A b \in Range(doc_tokens[1][k]) : b \in 48..57 \/ b \in 97..122

\* a run of 300 capitals followed by ".b" has been read: two tokens, the
\* first of 255 bytes
C13_LongRunClamped ==
    /\ pc = "check_mem"
    /\ manifest[1].file.content = LongRun(TOK_MAX + 44)
    /\ Len(doc_tokens[1]) = 2
    /\ Len(doc_tokens[1][1]) = 255
    /\ doc_tokens[1][2] = <<98>>

(***************************************************************************)
(* The lexicon records of a build.                                         *)
(***************************************************************************)
\* the records add_term has appended so far and those of lexicon.bin
LexRecords ==
    Range(lex) \cup (IF lexicon_bin.exists THEN Range(lexicon_bin.content.recs) ELSE {})

\* C14: on every lexicon record of a build, in the builder and in
\* lexicon.bin, df equals postings_len
C14_DfIsPostingsLen ==
    \A r \in LexRecords : r.df = r.postings_len

\* a written lexicon with a term that two documents contain
C14_TermOfTwoDocsWritten ==
    /\ pc = "exit" /\ exit_code = 0 /\ lexicon_bin.exists
    /\ \E k \in 1..Len(lexicon_bin.content.recs) : lexicon_bin.content.recs[k].postings_len >= 2

(***************************************************************************)
(* The document directory.                                                 *)
(***************************************************************************)
\* the manifest line of the i-th add_doc call, i counted from 0
AddDocLine(i) ==
    manifest[CHOOSE k \in 1..Len(manifest) :
                 manifest[k].ok_id /\ LinesWithDocId(k) = i + 1]

\* the title main passes to add_doc for a line (indexer.cpp 853-859)
PassedTitle(line) == IF line.title = <<>> THEN line.docid_str ELSE line.title

\* a record whose two strings lie inside the pool
InPool(r, pool) ==
    /\ r.title_off + r.title_len <= Len(pool)
    /\ r.url_off + r.url_len <= Len(pool)

\* C15: doc_title(i) and doc_url(i) read from docs.bin are the bytes passed
\* to the i-th add_doc call, add_doc returns the record count before the
\* call, and every recorded offset lies in the pool
C15_DocsRoundTrip ==
    /\ \A r \in Range(docs.recs) : InPool(r, docs.pool)
    /\ (pc = "read_line" /\ line_no < Len(manifest)) =>
          \E line \in {manifest[line_no + 1]} :
          \E a \in {DocsBuilder_add_doc(docs, PassedTitle(line), line.url)} :
             /\ a.id = Len(docs.recs)
             /\ Len(a.docs.recs) = a.id + 1
             /\ InPool(a.docs.recs[a.id + 1], a.docs.pool)
    /\ (pc \in {"query_loop", "search_exit"} /\ idx.ok = 1) =>
          /\ Index_doc_count(idx) = LinesWithDocId(Len(manifest))
          /\ \A i \in 0..(Index_doc_count(idx) - 1) :
                /\ Index_doc_title(idx, i) = PassedTitle(AddDocLine(i))
                /\ Index_doc_url(idx, i) = AddDocLine(i).url
                /\ InPool(idx.docs[i + 1], idx.doc_pool)

\* an index loaded with two documents, the second with a title and a url
\* of its own and the first titled by its doc_id
C15_TwoDocsRead ==
    /\ pc = "query_loop" /\ idx.ok = 1 /\ Index_doc_count(idx) = 2
    /\ AddDocLine(0).title = <<>> /\ Index_doc_title(idx, 0) = AddDocLine(0).docid_str
    /\ AddDocLine(1).title # <<>> /\ AddDocLine(1).url # <<>>
    /\ Index_doc_title(idx, 1) # Index_doc_url(idx, 1)

(***************************************************************************)
(* One iteration of the k-way merge.                                       *)
(***************************************************************************)
\* the readers of br whose current term is t
ReadersAt(t) ==
    { i \in DOMAIN br : BlockReader_has(br[i]) /\ br[i].blk[br[i].pos].term = t }

\* the doc-ids in the current lists of the readers in rs
DocsOfReaders(rs) == UNION { Range(br[i].blk[br[i].pos].docs) : i \in rs }

\* l is the ascending list of the members of S
AscendingListOf(l, S) == StrictlyAscending(l) /\ Range(l) = S /\ Len(l) = Cardinality(S)

\* C16: in each iteration of the k-way merge the lexicon record added
\* carries the bytes of the term selected as the smallest at the start of
\* the iteration, its postings are the sorted union of the lists of exactly
\* the readers whose current term equalled that term, and exactly those
\* readers are advanced
C16_MergeRecordOfSelectedTerm ==
    [][ (pc = "merge" /\ Len(lex') = Len(lex) + 1) =>
          \E min_i \in {select_min(br, Cardinality(DOMAIN br), 0, -1)} :
          \E t \in {br[min_i].blk[br[min_i].pos].term} :
             /\ lex'[Len(lex')].term = t
             /\ Len(postings_bin'.content.data)
                   = Len(postings_bin.content.data) + lex'[Len(lex')].postings_len
             /\ AscendingListOf(SubSeq(postings_bin'.content.data,
                                       Len(postings_bin.content.data) + 1,
                                       Len(postings_bin'.content.data)),
                                DocsOfReaders(ReadersAt(t)))
             /\ \A i \in DOMAIN br :
                   br'[i] = IF i \in ReadersAt(t) THEN BlockReader_next(br[i]) ELSE br[i] ]_vars

(***************************************************************************)
(* IoSpec: the builds of Spec from an empty blocks directory, on a file    *)
(* system that takes the block files whole, refuses to open them, or       *)
(* fails a write.                                                          *)
(***************************************************************************)
IoSpecInit ==
    /\ \E io \in BlkIoModes, m \in SeqsUpTo(ManifestLines, MaxLines), lim \in MemLimits :
          BuildInitOn(io, "keep", m, lim, <<>>)
    /\ QueryInit
    /\ LawInit

IoSpec == IoSpecInit /\ [][Next]_vars

\* a write of write_block has failed: a block file is short
BlockWriteFailed ==
    \E k \in 1..Len(blocks_dir) :
        blocks_dir[k].exists /\ TornEntry \in Range(blocks_dir[k].content)

\* the fopen of write_block has failed
BlockOpenFailed == blk_io = "open_fails" /\ block_id > 0

\* C18: the block writer fails fast on any I/O error: once the fopen of a
\* block file or a write to it has failed, the build has stopped with a
\* non-zero exit at that block: the term table was not cleared, no later
\* document was read and docs.bin was not written
C18_BlockWriterFailsFast ==
    (BlockWriteFailed \/ BlockOpenFailed) =>
        /\ exit_code = 1
        /\ block_id = 1
        /\ ~docs_bin.exists
        /\ tt.used > 0 \/ mem_limit = 0

(***************************************************************************)
(* ParseSpec: the search CLI on one of the three indexes of QuerySpec,     *)
(* given either the line written from an expression over the terms a, b,   *)
(* c with at most MaxOps operators, or any line of at most MaxQueryLen     *)
(* bytes.                                                                  *)
(***************************************************************************)
\* most operators in an expression drawn
MaxOps == 2

\* an expression is <<"T", term>>, <<"N", e>>, <<"A", l, r>> or <<"O", l, r>>
RECURSIVE ExprsOf(_)
ExprsOf(n) ==
    IF n = 0 THEN { <<"T", LawTerms[k]>> : k \in 1..Len(LawTerms) }
    ELSE { <<"N", e>> : e \in ExprsOf(n - 1) }
         \cup UNION { { <<op, l, r>> : op \in {"A", "O"}, l \in ExprsOf(i),
                                       r \in ExprsOf(n - 1 - i) } : i \in 0..(n - 1) }

Exprs == UNION { ExprsOf(n) : n \in 0..MaxOps }

\* what stands between the operands of a conjunction: "&", or a space
\* (the implicit AND)
ConjunctionStyles == {B(<<"&">>), B(<<" ">>)}

Paren(s, needed) == IF needed THEN B(<<"(">>) \o s \o B(<<")">>) ELSE s

\* the line of e with the fewest parentheses, where an operand of
\* precedence below p takes parentheses: NOT binds tighter than AND, AND
\* tighter than OR, AND and OR group to the left
RECURSIVE Render(_, _, _)
Render(e, p, sep) ==
    IF e[1] = "T" THEN e[2]
    ELSE IF e[1] = "N" THEN B(<<"!">>) \o Render(e[2], 3, sep)
    ELSE IF e[1] = "A"
    THEN Paren(Render(e[2], 2, sep) \o sep \o Render(e[3], 3, sep), p > 2)
    ELSE Paren(Render(e[2], 1, sep) \o B(<<"|">>) \o Render(e[3], 2, sep), p > 1)

ParseSpecInit ==
    /\ NoBuild
    /\ \E ix \in QueryIndexes : Loaded(ix, [limit |-> 50, offset |-> 0, stats_only |-> 0])
    /\ law = <<>> /\ lhs = <<>> /\ rhs = <<>>
    /\ expr \in Exprs \cup {<<>>}

\* the line written from expr is typed
TypeExpr ==
    /\ expr # <<>>
    /\ \E sep \in ConjunctionStyles : QueryOf({Render(expr, 0, sep)})

\* some line is typed
TypeAnyLine ==
    /\ expr = <<>>
    /\ QueryOf(QueryLinesUpTo(MaxQueryLen))

ParseSpecNext == TypeExpr \/ TypeAnyLine

ParseSpec == ParseSpecInit /\ [][ParseSpecNext]_vars

\* the line s with "&" written after each token that is a TERM or ")" and
\* is followed, unknown bytes skipped, by a TERM, "(" or "!"; i is the
\* place of the lexer, prev the type of the last token, out the bytes
\* copied so far
RECURSIVE explicit_from(_, _, _, _)
explicit_from(s, i, prev, out) ==
    With(TokStream_next(s, i), LAMBDA n :
      IF n.tok.type = "T_END" THEN out \o SubSeq(s, i + 1, Len(s))
      ELSE IF n.tok.type = "T_BAD"
      THEN explicit_from(s, n.i, prev, out \o SubSeq(s, i + 1, n.i))
      ELSE explicit_from(s, n.i, n.tok.type,
                         out \o (IF prev \in {"T_TERM", "T_RP"}
                                    /\ n.tok.type \in {"T_TERM", "T_LP", "T_NOT"}
                                 THEN B(<<"&">>) ELSE <<>>)
                             \o SubSeq(s, i + 1, n.i)))

WithExplicitAnd(s) == explicit_from(s, 0, "T_END", <<>>)

\* the number of "&" tokens of the line s from place i on
RECURSIVE and_tokens(_, _)
and_tokens(s, i) ==
    With(TokStream_next(s, i), LAMBDA n :
      IF n.tok.type = "T_END" THEN 0
      ELSE (IF n.tok.type = "T_AND" THEN 1 ELSE 0) + and_tokens(s, n.i))

AndItems(r) == Cardinality({ k \in 1..Len(r) : r[k].type = "T_AND" })

\* C19: an AND is injected exactly between two consecutive tokens (unknown
\* bytes skipped) where the left is a TERM or ")" and the right is a TERM,
\* "(" or "!": the postfix form of a line equals the postfix form of the
\* line with an explicit "&" written at each such place, and it holds one
\* AND for each "&" of that line
C19_ImplicitAndAsExplicit ==
    pc = "search_exit" =>
        /\ rpn = to_rpn(WithExplicitAnd(q_line))
        /\ AndItems(rpn) = and_tokens(WithExplicitAnd(q_line), 0)

\* the line a|b c was typed, with one implicit AND below the OR
C19_ImplicitAndBelowOr ==
    /\ pc = "search_exit"
    /\ q_line = B(<<"a", "|", "b", " ", "c">>)
    /\ WithExplicitAnd(q_line) = B(<<"a", "|", "b", "&", " ", "c">>)
    /\ AndItems(rpn) = 1

\* the documents of the index that hold the term t, read from the lexicon
\* record by record
DocsWithTerm(ix, t) ==
    UNION { Range(Index_postings(ix, ix.lex[k]).a) :
            k \in { j \in 1..Len(ix.lex) : ix.lex[j].term = t } }

\* the documents the expression e selects: NOT is the complement in
\* [0, doc_count), AND the intersection, OR the union
RECURSIVE ExprDocs(_, _)
ExprDocs(ix, e) ==
    IF e[1] = "T" THEN DocsWithTerm(ix, e[2])
    ELSE IF e[1] = "N" THEN (0..(Index_doc_count(ix) - 1)) \ ExprDocs(ix, e[2])
    ELSE IF e[1] = "A" THEN ExprDocs(ix, e[2]) \cap ExprDocs(ix, e[3])
    ELSE ExprDocs(ix, e[2]) \cup ExprDocs(ix, e[3])

\* C20: for every well-formed query, evaluating the postfix form produced
\* by to_rpn gives the result of the expression tree in which NOT binds
\* tighter than AND, AND tighter than OR, AND and OR group to the left, NOT
\* is a right-associative prefix operator and parentheses override
\* precedence: the ascending list of the documents the tree selects
C20_PostfixEvaluatesTree ==
    (pc = "search_exit" /\ expr # <<>>) =>
        AscendingListOf(res, ExprDocs(idx, expr))

\* the line a|b&c was typed on the index where it selects document 1 and
\* (a|b)&c selects nothing
C20_AndBelowOrTyped ==
    /\ pc = "search_exit"
    /\ expr = <<"O", <<"T", B(<<"a">>)>>, <<"A", <<"T", B(<<"b">>)>>, <<"T", B(<<"c">>)>>>>>>
    /\ q_line = B(<<"a", "|", "b", "&", "c">>)
    /\ ExprDocs(idx, <<"A", <<"O", <<"T", B(<<"a">>)>>, <<"T", B(<<"b">>)>>>>, <<"T", B(<<"c">>)>>>>) = {}
    /\ res = <<1>>

(***************************************************************************)
(* Tolerant evaluation of any line.                                        *)
(***************************************************************************)
\* the number of tokens of the line s, from place i on, whose type is in
\* types
RECURSIVE count_tokens(_, _, _)
count_tokens(s, i, types) ==
    With(TokStream_next(s, i), LAMBDA n :
      IF n.tok.type = "T_END" THEN 0
      ELSE (IF n.tok.type \in types THEN 1 ELSE 0) + count_tokens(s, n.i, types))

\* the top n of the stack of sets st, bottom first, an empty set standing
\* for each operand the stack lacks
Operands(st, n) ==
    [k \in 1..n |-> IF Len(st) - n + k >= 1 THEN st[Len(st) - n + k] ELSE {}]

\* the stack st without its top n
Below(st, n) == SubSeq(st, 1, IF Len(st) > n THEN Len(st) - n ELSE 0)

\* the stack of document sets after the postfix items r[i..] are applied to
\* st, by the meaning of the operators
RECURSIVE tolerant_sets(_, _, _, _)
tolerant_sets(ix, r, i, st) ==
    IF i > Len(r) THEN st
    ELSE IF r[i].type = "T_TERM"
    THEN tolerant_sets(ix, r, i + 1, Append(st, DocsWithTerm(ix, r[i].text)))
    ELSE IF r[i].type = "T_NOT"
    THEN tolerant_sets(ix, r, i + 1,
                       Append(Below(st, 1),
                              (0..(Index_doc_count(ix) - 1)) \ Operands(st, 1)[1]))
    ELSE IF r[i].type = "T_AND"
    THEN tolerant_sets(ix, r, i + 1,
                       Append(Below(st, 2), Operands(st, 2)[1] \cap Operands(st, 2)[2]))
    ELSE tolerant_sets(ix, r, i + 1,
                       Append(Below(st, 2), Operands(st, 2)[1] \cup Operands(st, 2)[2]))

\* C21: for every query line, well-formed or not, to_rpn and eval_rpn
\* complete: the postfix form holds one item for each TERM and operator
\* token of the line (with its implicit ANDs written out) and no
\* parenthesis, an operator that lacks operands takes the empty list for
\* each missing one, and the result is the top of the result stack (the
\* empty list when the stack is empty)
C21_TolerantEvaluation ==
    pc = "search_exit" =>
        /\ \A k \in 1..Len(rpn) : rpn[k].type \in {"T_TERM", "T_AND", "T_OR", "T_NOT"}
        /\ \A t \in {"T_TERM", "T_AND", "T_OR", "T_NOT"} :
              Cardinality({ k \in 1..Len(rpn) : rpn[k].type = t })
                = count_tokens(WithExplicitAnd(q_line), 0, {t})
        /\ \E top \in {tolerant_sets(idx, rpn, 1, <<>>)} :
              AscendingListOf(res, IF Len(top) = 0 THEN {} ELSE top[Len(top)])

\* the line (|a was answered: an unmatched "(" and an OR without its left
\* operand, on an index in which a has documents
C21_UnmatchedParenAndLoneOr ==
    /\ pc = "search_exit"
    /\ q_line = B(<<"(", "|", "a">>)
    /\ Len(rpn) = 2
    /\ res # <<>>
    /\ Range(res) = DocsWithTerm(idx, B(<<"a">>))

(***************************************************************************)
(* The posting lists in memory.                                            *)
(***************************************************************************)
\* the places of the token t in the token stream toks
Occurrences(t, toks) == { k \in 1..Len(toks) : toks[k] = t }

\* C22: at every point of a build every in-memory posting list is strictly
\* increasing, so it holds no doc-id twice, and its last element is the id
\* of a document already read; this also holds when the dedup set answered
\* "not present" for a term already seen in the current document
C22_PostingListsStrictlyIncreasing ==
    \A i \in 0..(tt.cap - 1) :
        tt.tab[i].live =>
            /\ StrictlyAscending(tt.tab[i].post.a)
            /\ \A k \in 1..Len(tt.tab[i].post.a) : tt.tab[i].post.a[k] \in 0..(doc_id - 1)

\* a document in which a term occurs twice after the dedup set reached its
\* threshold has been read: both occurrences were answered "not present"
\* and the term has the document in its list
C22_RepeatedTermAfterSaturation ==
    \E t \in SaturationProbes :
        /\ MetAfterThreshold(t)
        /\ Cardinality(Occurrences(t, doc_tokens[doc_id])) >= 2
        /\ HasPosting(t, doc_id - 1)

(***************************************************************************)
(* TableSpec: the term table and the dedup set alone, under any sequence   *)
(* of at most MaxCalls calls of get_or_create and contains_or_add for the  *)
(* terms of TableTerms, with clear() (a flush) and reset() (the start of   *)
(* the next document) between them.  total_tokens counts the calls and     *)
(* doc_tokens holds, per document, the terms given to get_or_create.       *)
(***************************************************************************)
\* b and z share their home slot in a table of any size
TableTerms == { B(<<"a">>), B(<<"b">>), B(<<"z">>) }

TableSpecInit ==
    /\ BuildInit("keep", <<>>, 0, <<>>)
    /\ QueryInit
    /\ LawInit

\* tt->get_or_create(tok, tok_len) and the push that follows it
\* (indexer.cpp 754-755)
GetOrCreate(s) ==
    /\ pc = "read_line"
    /\ total_tokens < MaxCalls
    /\ \E g \in {TermTable_get_or_create(tt, s)} :
          /\ tt' = IF g.hang \/ g.e = -1 THEN g.tt
                   ELSE [g.tt EXCEPT !.tab[g.e].post = push_unique_sorted(@, doc_id)]
          /\ pc' = IF g.hang THEN "hang" ELSE pc
    /\ total_tokens' = total_tokens + 1
    /\ doc_tokens' = IF Len(doc_tokens) = doc_id + 1
                     THEN [doc_tokens EXCEPT ![doc_id + 1] = Append(@, s)]
                     ELSE Append(doc_tokens, <<s>>)
    /\ UNCHANGED <<heap, blk_io, manifest, mem_limit, line_no, doc_id, block_id, docs,
                   dset, blocks_dir, docs_bin, lexicon_bin, postings_bin, br,
                   postings_cursor, lex, exit_code>>
    /\ UNCHANGED query_vars
    /\ UNCHANGED law_vars

\* dset->contains_or_add(tok, tok_len) (indexer.cpp 752)
ContainsOrAdd(s) ==
    /\ pc = "read_line"
    /\ total_tokens < MaxCalls
    /\ \E r \in {DocTermSet_contains_or_add(dset, s)} :
          /\ dset' = r.ds
          /\ pc' = IF r.hang THEN "hang" ELSE pc
    /\ total_tokens' = total_tokens + 1
    /\ UNCHANGED <<heap, blk_io, manifest, mem_limit, line_no, doc_id, block_id, docs,
                   tt, doc_tokens, blocks_dir, docs_bin, lexicon_bin, postings_bin, br,
                   postings_cursor, lex, exit_code>>
    /\ UNCHANGED query_vars
    /\ UNCHANGED law_vars

\* the end of one document and the start of the next: doc_id++
\* (indexer.cpp 892) and dset->reset() (728)
NextDoc ==
    /\ pc = "read_line"
    /\ doc_id + 1 < MaxLines
    /\ doc_id' = doc_id + 1
    /\ dset' = DocTermSet_reset(dset)
    /\ doc_tokens' = IF Len(doc_tokens) = doc_id + 1 THEN doc_tokens
                     ELSE Append(doc_tokens, <<>>)
    /\ UNCHANGED <<heap, blk_io, manifest, mem_limit, pc, line_no, block_id, docs, tt,
                   total_tokens, blocks_dir, docs_bin, lexicon_bin, postings_bin, br,
                   postings_cursor, lex, exit_code>>
    /\ UNCHANGED query_vars
    /\ UNCHANGED law_vars

\* tt.clear() of a flush (indexer.cpp 898)
Clear ==
    /\ pc = "read_line"
    /\ block_id < MaxLines
    /\ tt' = TermTable_clear(tt)
    /\ block_id' = block_id + 1
    /\ UNCHANGED <<heap, blk_io, manifest, mem_limit, pc, line_no, doc_id, docs, dset,
                   total_tokens, doc_tokens, blocks_dir, docs_bin, lexicon_bin,
                   postings_bin, br, postings_cursor, lex, exit_code>>
    /\ UNCHANGED query_vars
    /\ UNCHANGED law_vars

GetOrCreateAny == \E s \in TableTerms : GetOrCreate(s)

ContainsOrAddAny == \E s \in TableTerms : ContainsOrAdd(s)

TableSpecNext == GetOrCreateAny \/ ContainsOrAddAny \/ NextDoc \/ Clear

TableSpec == TableSpecInit /\ [][TableSpecNext]_vars

\* the terms of the live entries of the table t
TermsIn(t) == { t.tab[i].term : i \in { j \in 0..(t.cap - 1) : t.tab[j].live } }

\* the slots of t whose live entry holds the term s
SlotsOf(t, s) == { i \in 0..(t.cap - 1) : t.tab[i].live /\ t.tab[i].term = s }

\* the posting list of the term s in t
PostOf(t, s) == t.tab[CHOOSE i \in SlotsOf(t, s) : TRUE].post.a

\* the slot at which the probe loop of get_or_create stops for s in t
Lookup(t, s) == probe_find(t.tab, t.cap - 1, BitAnd(fnv1a_64(s), t.cap - 1), s, 0)

IsPow2(n) == \E k \in 0..(TTCapLog2 + MaxCalls) : n = Pow2(k)

\* the term of the last get_or_create call recorded in the history h
LastInserted(h) == h[Len(h)][Len(h[Len(h)])]

\* C23: a get_or_create call for the term s, with or without a
\* grow-and-rehash, leaves a table that holds exactly one entry for each
\* term it held and for s, used being their number; every other entry
\* keeps its posting list and the list of s is extended by the current
\* doc-id; the probe for each term held ends at its entry; the capacity is
\* a power of two and has doubled exactly when used*10 >= cap*7 held at
\* the start of the call
C23_OneEntryPerTerm ==
    [][(total_tokens' = total_tokens + 1 /\ doc_tokens' # doc_tokens) =>
         \E s \in {LastInserted(doc_tokens')} :
           /\ pc' = "read_line"
           /\ TermsIn(tt') = TermsIn(tt) \cup {s}
           /\ tt'.used = Cardinality(TermsIn(tt'))
           /\ \A t \in TermsIn(tt') :
                 /\ Cardinality(SlotsOf(tt', t)) = 1
                 /\ Lookup(tt', t) \in SlotsOf(tt', t)
           /\ \A t \in TermsIn(tt) \ {s} : PostOf(tt', t) = PostOf(tt, t)
           /\ PostOf(tt', s) = IF s \in TermsIn(tt)
                               THEN push_unique_sorted([a |-> PostOf(tt, s), cap |-> 0],
                                                       doc_id).a
                               ELSE <<doc_id>>
           /\ IsPow2(tt'.cap)
           /\ tt'.cap = IF tt.used * 10 >= tt.cap * 7 THEN tt.cap * 2 ELSE tt.cap
      ]_vars

\* the table has doubled twice since the last clear and holds three terms,
\* one with the document it had before the rehashes, one of the next
\* document, and one that is not in its home slot
C23_GrownTwiceWithCollision ==
    /\ pc = "read_line"
    /\ tt.cap = Pow2(TTCapLog2 + 2)
    /\ tt.used = 3
    /\ \E t \in TermsIn(tt) : PostOf(tt, t) = <<0>>
    /\ \E t \in TermsIn(tt) : PostOf(tt, t) = <<1>>
    /\ \E t \in TermsIn(tt) : Lookup(tt, t) # BitAnd(fnv1a_64(t), tt.cap - 1)

(***************************************************************************)
(* The term table after a flush.                                           *)
(***************************************************************************)
\* the doc-ids in the blocks 0..n-1 of the directory dir
DocsInBlocks(dir, n) ==
    UNION { UNION { Range(dir[k].content[j].docs) : j \in 1..Len(dir[k].content) } :
            k \in 1..n }

\* the terms in the blocks 0..n-1 of the directory dir
TermsInBlocks(dir, n) ==
    UNION { { dir[k].content[j].term : j \in 1..Len(dir[k].content) } : k \in 1..n }

\* C24: after every flush the term table is empty (used = 0, every slot
\* free and without a posting list, the arena at 0, the capacity kept), and
\* the posting lists of the table hold only doc-ids larger than every
\* doc-id of the blocks flushed so far, so a term that occurs again gets a
\* fresh entry with the documents after the flush only
C24_TableEmptyAfterFlush ==
    [][ /\ (block_id' = block_id + 1 /\ pc' \in {"read_line", "write_docs"}) =>
              /\ tt'.used = 0
              /\ tt'.arena_used = 0
              /\ tt'.cap = tt.cap
              /\ \A i \in 0..(tt'.cap - 1) : tt'.tab[i] = TermEntry
              /\ TermTable_approx_mem_bytes(tt') = tt.cap * SizeofTermEntry
        /\ \A i \in 0..(tt'.cap - 1) :
              ~tt'.tab[i].live \/
              \A d \in Range(tt'.tab[i].post.a) :
                  \A f \in DocsInBlocks(blocks_dir', block_id') : d > f
      ]_vars

\* a term of a block already flushed has occurred again in the document
\* just read and its entry holds that document alone
C24_FlushedTermSeenAgain ==
    /\ pc = "check_mem"
    /\ block_id >= 1
    /\ \E t \in TermsInBlocks(blocks_dir, block_id) :
          /\ SlotsOf(tt, t) # {}
          /\ PostOf(tt, t) = <<doc_id - 1>>

(***************************************************************************)
(* The page of results printed.                                            *)
(***************************************************************************)
\* the entries of the list l at the places [off, off + lim)
Page(l, off, lim) ==
    SubSeq(l, off + 1, IF off + lim < Len(l) THEN off + lim ELSE Len(l))

\* C25: for every query the lines printed are the entries at the places
\* [offset, offset + limit) of the result list, fewer when the list is
\* shorter (none with --stats-only), and the shown count is
\* min(limit, max(0, hits - offset)) with and without --stats-only, hits
\* being the length of the result list
C25_PageOfResult ==
    pc = "search_exit" =>
        /\ args.stats_only = 0 =>
              /\ Len(out_lines) = Len(Page(res, args.offset, args.limit))
              /\ \A k \in 1..Len(out_lines) :
                    out_lines[k].id = Page(res, args.offset, args.limit)[k]
        /\ args.stats_only # 0 => out_lines = <<>>
        /\ shown = Len(Page(res, args.offset, args.limit))

(***************************************************************************)
(* The index and the blocks directory found by the build.                  *)
(***************************************************************************)
\* C26: the index produced by a build depends only on the manifest and the
\* corpus of that build, whatever the blocks directory held before: every
\* lexicon record carries a term of a document of this build and its
\* postings run holds only documents of this build that contain the term.
\* (Stated for the builds in which a read of released memory returns the
\* old bytes, so that a failure does not rest on that read.)
C26_IndexOfThisBuildOnly ==
    (BuildCompleted /\ heap = "keep") =>
        \A k \in 1..Len(lexicon_bin.content.recs) :
            \E R \in {lexicon_bin.content.recs[k]} :
                /\ DocsContaining(R.term) # {}
                /\ Range(PostingsRun(R)) \subseteq DocsContaining(R.term)

(***************************************************************************)
(* The blocks written by one build.                                        *)
(***************************************************************************)
\* C27: every block file written by the indexer holds at least one term: no
\* step writes a block from an empty term table
C27_NoEmptyBlock ==
    [][block_id' = block_id + 1 =>
          /\ tt.used > 0
          /\ blocks_dir'[block_id + 1].exists
          /\ Len(blocks_dir'[block_id + 1].content) >= 1
      ]_vars

\* the doc-ids in block k - 1 of the blocks directory
DocsOfBlock(k) ==
    UNION { Range(blocks_dir[k].content[j].docs) : j \in 1..Len(blocks_dir[k].content) }

\* block k - 1 holds the term t with the document d in its list
InBlock(k, t, d) ==
    \E j \in 1..Len(blocks_dir[k].content) :
        /\ blocks_dir[k].content[j].term = t
        /\ d \in Range(blocks_dir[k].content[j].docs)

\* the term table holds the term t with the document d in its list
InTable(t, d) == SlotsOf(tt, t) # {} /\ d \in Range(PostOf(tt, t))

\* the documents in the posting lists of the term table
DocsOfTable ==
    UNION { Range(tt.tab[i].post.a) : i \in { j \in 0..(tt.cap - 1) : tt.tab[j].live } }

\* C28: a flush happens only between documents: the blocks written so far
\* are block_0 .. block_<block_id - 1> without a gap, every doc-id of a
\* block is smaller than every doc-id of the blocks after it, and the
\* postings of each document read are all in the term table and in no
\* block, or all in one block and in no other block nor in the table
C28_OneBlockPerDocument ==
    pc \in {"read_line", "check_mem", "write_docs", "merge_open", "merge", "exit"} =>
        /\ \A k \in 1..block_id : k <= Len(blocks_dir) /\ blocks_dir[k].exists
        /\ \A k1 \in 1..block_id : \A k2 \in 1..block_id :
              k1 < k2 => \A d1 \in DocsOfBlock(k1) : \A d2 \in DocsOfBlock(k2) : d1 < d2
        /\ \A d \in 0..(Len(doc_tokens) - 1) :
              \/ /\ \A t \in Range(doc_tokens[d + 1]) : InTable(t, d)
                 /\ \A k \in 1..block_id : d \notin DocsOfBlock(k)
              \/ \E k \in 1..block_id :
                    /\ \A t \in Range(doc_tokens[d + 1]) : InBlock(k, t, d)
                    /\ \A k2 \in 1..block_id : k2 # k => d \notin DocsOfBlock(k2)
                    /\ d \notin DocsOfTable

\* two blocks have been written, the first with document 0 alone and the
\* second with document 1 alone, each document with a term of the other
C28_TwoDocumentsTwoBlocks ==
    /\ block_id = 2
    /\ DocsOfBlock(1) = {0}
    /\ DocsOfBlock(2) = {1}
    /\ \E t \in Range(doc_tokens[1]) : InBlock(1, t, 0) /\ InBlock(2, t, 1)

(***************************************************************************)
(* Termination of the probe loops.                                         *)
(***************************************************************************)
\* the table t, of the term table or of the dedup set, has a free slot
HasFreeSlot(t) == \E i \in 0..(t.cap - 1) : ~t.tab[i].live

\* the probe loop started for s in t ends, at a free slot or at the entry
\* of s
ProbeEnds(t, s) ==
    \E pos \in {Lookup(t, s)} :
        /\ pos # -1
        /\ ~t.tab[pos].live \/ t.tab[pos].term = s

\* C29: linear probing always terminates: no call has been left in its
\* probe loop; for the next call of get_or_create the table has a free slot
\* after maybe_grow and the loop ends for every term, and so for the next
\* call of contains_or_add when the set is below its threshold, which is
\* when the call reaches the loop
C29_ProbeTerminates ==
    /\ pc # "hang"
    /\ \E g \in {TermTable_maybe_grow(tt)} :
          /\ HasFreeSlot(g)
          /\ \A s \in TableTerms : ProbeEnds(g, s)
    /\ ~Saturated(dset) =>
          /\ HasFreeSlot(dset)
          /\ \A s \in TableTerms : ProbeEnds(dset, s)

\* the term table and the dedup set are both full before the next call
C29_BothTablesFull ==
    /\ pc = "read_line"
    /\ tt.used = tt.cap
    /\ ~HasFreeSlot(tt)
    /\ dset.used = dset.cap
    /\ ~HasFreeSlot(dset)

(***************************************************************************)
(* The postings runs in postings.bin.                                      *)
(***************************************************************************)
\* the size of postings.bin in bytes
PostingsFileSize == SizeofPostHeader + 4 * Len(postings_bin.content.data)

\* the byte after the run of the record R
EndOfRun(R) == R.postings_off + 4 * R.postings_len

\* C30: the postings runs tile postings.bin: in merge order the first run
\* starts at the header size, each next run starts where the one before it
\* ends, no two runs overlap, and the last run ends at the end of the
\* file; so postings_ptr returns a pointer that is not null, with the run
\* inside the file, for every record of the lexicon of the same build
C30_RunsTilePostings ==
    (pc \in {"merge", "exit", "query_loop", "search_exit"} /\ postings_bin.exists) =>
        /\ Len(lex) > 0 => lex[1].postings_off = SizeofPostHeader
        /\ \A k \in 1..(Len(lex) - 1) : lex[k + 1].postings_off = EndOfRun(lex[k])
        /\ \A k1 \in 1..Len(lex) : \A k2 \in 1..Len(lex) :
              k1 < k2 => EndOfRun(lex[k1]) <= lex[k2].postings_off
        /\ PostingsFileSize = IF Len(lex) = 0 THEN SizeofPostHeader ELSE EndOfRun(lex[Len(lex)])
        /\ BuildCompleted =>
              \E ix \in {Index_load(docs_bin, lexicon_bin, postings_bin)} :
                \A k \in 1..Len(lexicon_bin.content.recs) :
                  \E R \in {lexicon_bin.content.recs[k]} :
                    /\ R \in Range(lex)
                    /\ ~Index_postings(ix, R).null
                    /\ R.postings_off >= SizeofPostHeader
                    /\ EndOfRun(R) <= ix.postings_size
                    /\ Len(Index_postings(ix, R).a) = R.postings_len

\* a build has ended with three runs or more, one of them of two doc-ids
\* and not the last
C30_ThreeRunsWritten ==
    /\ BuildCompleted
    /\ Len(lex) >= 3
    /\ \E k \in 1..(Len(lex) - 1) :
          lex[k].postings_len = 2 /\ lex[k + 1].postings_off = lex[k].postings_off + 8


====
